---- MODULE Spec2Model ----
(***************************************************************************)
(* Model of the automated response pipeline of the content safety agent:   *)
(* the escalation rule engine (findApplicableRules, consolidateActions),   *)
(* the response executor (processContent, processContentResponse and the   *)
(* action handlers) and the Bull queues that drive them.                   *)
(*                                                                         *)
(* Scores and confidences are numbers in [0,1] in the code; here they are  *)
(* integers in hundredths (0.95 is 95).                                    *)
(***************************************************************************)
EXTENDS Integers, Sequences, FiniteSets, TLC

VARIABLES
    callArg,          \* argument of the pure function under examination
    callRet,          \* its result, <<>> before the call
    content,          \* the Content collection: a function from ids to documents
    escalationRules,  \* AutomatedResponseService.escalationRules
    queues,           \* the four Bull queues: name -> sequence of jobs
    response_log,     \* redis list 'response_log' (head first)
    escalation,       \* redis lists 'escalation:<severity>' (head first)
    analyses,         \* the calls of analyzeCurrentTrends, each with its position
    trend,            \* redis keys 'trend:<id>': id -> stored TrendData
    trending_active,  \* redis sorted set 'trending:active': id -> score
    warning,          \* redis keys 'warning:<id>': id -> stored EarlyWarning
    warnings_active,  \* redis list 'warnings:active' (head first)
    warnings,         \* redis lists 'warnings:<severity>' (head first)
    now,              \* Date.now(), in periods of the analysis timer
    rate_limit,       \* redis keys 'rate_limit:<key>:<window>': <<key, window>> -> count
    requests          \* the requests the rate limiter was called with, each with its position

\* the state of the TrendAnalysisService and of its redis keys
trendVars == <<analyses, trend, trending_active, warning, warnings_active, warnings, now>>

vars == <<callArg, callRet, content, escalationRules, queues, response_log,
          escalation, analyses, trend, trending_active, warning, warnings_active, warnings,
          now, rate_limit, requests>>

\* ------------------------------------------------------------------ bounds

\* longest category list of a DetectionResult handed to determineUrgency
MaxCats == 2

\* calls of processContent, of addIngestionJob, and jobs the escalation queue
\* is given
MaxResponseJobs == 1
MaxIngestionJobs == 1
MaxEscalationJobs == 4

\* response jobs for one content item and one detection result
MaxReprocess == 2

\* calls of analyzeCurrentTrends, and awaits of them that are made to throw
MaxAnalyses == 2
MaxFailures == 2

\* ids of acknowledged warnings, the id of the request counted with them
MaxAcknowledged == 1

\* longest rule set the rule engine is examined with
MaxRules == 2

\* retention windows of the trend records that pass
MaxWindows == 1

\* requests the rate limiter is called with, and periods of the timer that
\* pass while it is
MaxRequests == 3
MaxPeriods == 3

\* ------------------------------------------------------------------ vocabulary

Categories ==
    {"hate_speech", "cyberbullying", "harassment", "dangerous_challenge",
     "self_harm", "violence", "sexual_content", "misinformation", "spam",
     "fraud", "illegal_activity", "extremism"}

Severities == {"low", "medium", "high", "critical"}

\* an optional number is <<>> (undefined) or <<n>>
Given(opt) == opt # <<>>

\* JavaScript truthiness of an optional number: undefined and 0 are falsy
Truthy(opt) == opt # <<>> /\ opt[1] # 0

\* ------------------------------------------------------------------ urgency

HighRiskCategories == {"self_harm", "violence", "dangerous_challenge", "extremism"}

determineUrgencyStrict(detectionResult) ==
    LET score == detectionResult.harmfulnessScore
        hasHighRiskCategories ==
            \E cat \in detectionResult.categories : cat \in HighRiskCategories
    IN  IF score > 95 \/ hasHighRiskCategories THEN "critical"
        ELSE IF score > 85 THEN "high"
        ELSE IF score > 70 THEN "medium"
        ELSE "low"

determineUrgency(detectionResult) ==
    LET score == detectionResult.harmfulnessScore
        hasHighRiskCategories ==
            \E cat \in detectionResult.categories : cat \in HighRiskCategories
    IN  IF score >= 95 \/ hasHighRiskCategories THEN "critical"
        ELSE IF score >= 85 THEN "high"
        ELSE IF score >= 70 THEN "medium"
        ELSE "low"

getJobPriorityFlat(urgency) ==
    CASE urgency = "critical" -> 1
      [] urgency = "high" -> 2
      [] urgency = "medium" -> 4
      [] OTHER -> 4

getJobPriority(urgency) ==
    CASE urgency = "critical" -> 1
      [] urgency = "high" -> 2
      [] urgency = "medium" -> 3
      [] urgency = "low" -> 4
      [] OTHER -> 4

\* ------------------------------------------------------------------ virality

\* the JavaScript value of  total > 1000 || shares > 100 || (views && views > 10000)
checkViralityIndicatorsInclusive(engagement) ==
    LET totalEngagement == engagement.likes + engagement.shares + engagement.comments
        viralThreshold == 1000
    IN  IF totalEngagement >= viralThreshold \/ engagement.shares > 100 THEN "true"
        ELSE IF engagement.views = <<>> THEN "undefined"
        ELSE IF engagement.views[1] = 0 THEN "0"
        ELSE IF engagement.views[1] > 10000 THEN "true" ELSE "false"

checkViralityIndicators(engagement) ==
    LET totalEngagement == engagement.likes + engagement.shares + engagement.comments
        viralThreshold == 1000
    IN  IF totalEngagement > viralThreshold \/ engagement.shares > 100 THEN "true"
        ELSE IF engagement.views = <<>> THEN "undefined"
        ELSE IF engagement.views[1] = 0 THEN "0"
        ELSE IF engagement.views[1] > 10000 THEN "true" ELSE "false"

\* !isViral as findApplicableRules evaluates it
IsViral(engagement) == checkViralityIndicators(engagement) = "true"

\* ------------------------------------------------------------------ rule engine

\* ResponseAction: automated is true in every rule and metadata is never set
Action(type, severity, reason) == [type |-> type, severity |-> severity, reason |-> reason]

\* EscalationRule.conditions: an absent bound is <<>>, an absent or empty list {}
Conditions(min, max, confMin, categories, platforms, viralityIndicators) ==
    [min |-> min, max |-> max, confMin |-> confMin, categories |-> categories,
     platforms |-> platforms, viralityIndicators |-> viralityIndicators]

Rule(id, conditions, actions, priority, enabled) ==
    [id |-> id, conditions |-> conditions, actions |-> actions,
     priority |-> priority, enabled |-> enabled]

typePriority(type) ==
    CASE type = "remove" -> 5
      [] type = "quarantine" -> 4
      [] type = "escalate" -> 3
      [] type = "flag" -> 2
      [] type = "warn" -> 1
      [] type = "notify" -> 1
      [] OTHER -> 1

severityPriority(severity) ==
    CASE severity = "critical" -> 4
      [] severity = "high" -> 3
      [] severity = "medium" -> 2
      [] severity = "low" -> 1
      [] OTHER -> 1

getActionPriority(action) == typePriority(action.type) * severityPriority(action.severity)

\* one rule of the filter in findApplicableRules; the bounds are tested for
\* truthiness before they are compared, so a bound of 0 is skipped
ruleMatches(rule, detectionResult, contentDoc) ==
    LET conditions == rule.conditions
    IN  /\ rule.enabled
        /\ ~(Truthy(conditions.min) /\ detectionResult.harmfulnessScore < conditions.min[1])
        /\ ~(Truthy(conditions.max) /\ detectionResult.harmfulnessScore > conditions.max[1])
        /\ ~(Truthy(conditions.confMin) /\ detectionResult.confidence < conditions.confMin[1])
        /\ (conditions.categories # {} =>
                \E cat \in conditions.categories : cat \in detectionResult.categories)
        /\ (conditions.platforms # {} => contentDoc.platform \in conditions.platforms)
        /\ (conditions.viralityIndicators => IsViral(contentDoc.engagement))

\* Array.prototype.sort is stable: insert after every element that does not
\* compare behind the new one
RECURSIVE insertRule(_, _)
insertRule(sorted, rule) ==
    IF sorted = <<>> THEN <<rule>>
    ELSE IF Head(sorted).priority < rule.priority THEN <<rule>> \o sorted
    ELSE <<Head(sorted)>> \o insertRule(Tail(sorted), rule)

\* .sort((a, b) => b.priority - a.priority)
RECURSIVE sortRules(_)
sortRules(rules) ==
    IF rules = <<>> THEN <<>>
    ELSE insertRule(sortRules(SubSeq(rules, 1, Len(rules) - 1)), rules[Len(rules)])

\* a pass that evaluates the first default rule with the rest of the loaded set
findApplicableRulesMixed(detectionResult, contentDoc) ==
    sortRules(SelectSeq(<< Rule("critical_self_harm",
                                Conditions(<<80>>, <<>>, <<>>, {"self_harm"}, {}, FALSE),
                                << Action("remove", "critical",
                                          "Self-harm content detected") >>,
                                100, TRUE) >> \o Tail(escalationRules),
                        LAMBDA rule : ruleMatches(rule, detectionResult, contentDoc)))

findApplicableRules(detectionResult, contentDoc) ==
    sortRules(SelectSeq(escalationRules,
                        LAMBDA rule : ruleMatches(rule, detectionResult, contentDoc)))

actionKey(action) == <<action.type, action.severity>>

\* index of the Map entry with this key, 0 when there is none
mapIndex(actionMap, key) ==
    IF \E i \in 1..Len(actionMap) : actionKey(actionMap[i]) = key
    THEN CHOOSE i \in 1..Len(actionMap) : actionKey(actionMap[i]) = key
    ELSE 0

\* the body of the inner loop of consolidateActions, replacing whenever the
\* key is already there
mapPutLast(actionMap, action) ==
    LET i == mapIndex(actionMap, actionKey(action))
    IN  IF i = 0 THEN Append(actionMap, action)
        ELSE [actionMap EXCEPT ![i] = action]

\* the body of the inner loop of consolidateActions: Map.set keeps the place
\* of a key that is already there
mapPut(actionMap, action) ==
    LET i == mapIndex(actionMap, actionKey(action))
    IN  IF i = 0 THEN Append(actionMap, action)
        ELSE IF getActionPriority(action) > getActionPriority(actionMap[i])
        THEN [actionMap EXCEPT ![i] = action]
        ELSE actionMap

RECURSIVE mapPutAll(_, _)
mapPutAll(actionMap, actions) ==
    IF actions = <<>> THEN actionMap
    ELSE mapPutAll(mapPut(actionMap, Head(actions)), Tail(actions))

RECURSIVE collectActions(_, _)
collectActions(actionMap, rules) ==
    IF rules = <<>> THEN actionMap
    ELSE collectActions(mapPutAll(actionMap, Head(rules).actions), Tail(rules))

RECURSIVE insertAction(_, _)
insertAction(sorted, action) ==
    IF sorted = <<>> THEN <<action>>
    ELSE IF getActionPriority(Head(sorted)) < getActionPriority(action)
    THEN <<action>> \o sorted
    ELSE <<Head(sorted)>> \o insertAction(Tail(sorted), action)

\* a sort that is not stable: equal elements come out in reverse
RECURSIVE sortActionsUnstable(_)
sortActionsUnstable(actions) ==
    IF actions = <<>> THEN <<>>
    ELSE insertAction(sortActionsUnstable(Tail(actions)), Head(actions))

\* a sort by ascending action priority
RECURSIVE sortActionsAscending(_)
sortActionsAscending(actions) ==
    IF actions = <<>> THEN <<>>
    ELSE LET rest == sortActionsAscending(SubSeq(actions, 1, Len(actions) - 1))
             action == actions[Len(actions)]
             before == SelectSeq(rest, LAMBDA a : getActionPriority(a) <= getActionPriority(action))
             after == SelectSeq(rest, LAMBDA a : getActionPriority(a) > getActionPriority(action))
         IN  before \o <<action>> \o after

\* .sort((a, b) => getActionPriority(b) - getActionPriority(a))
RECURSIVE sortActions(_)
sortActions(actions) ==
    IF actions = <<>> THEN <<>>
    ELSE insertAction(sortActions(SubSeq(actions, 1, Len(actions) - 1)),
                      actions[Len(actions)])

consolidateActions(rules) == sortActions(collectActions(<<>>, rules))

\* ------------------------------------------------------------------ rule sets

NoConditions == Conditions(<<>>, <<>>, <<>>, {}, {}, FALSE)

getDefaultEscalationRules ==
    << Rule("critical_self_harm",
            Conditions(<<80>>, <<>>, <<>>, {"self_harm"}, {}, FALSE),
            << Action("remove", "critical", "Self-harm content detected"),
               Action("notify", "critical", "Mental health crisis alert") >>,
            100, TRUE),
       Rule("high_violence_viral",
            Conditions(<<75>>, <<>>, <<>>, {"violence"}, {}, TRUE),
            << Action("quarantine", "high", "Violent content with viral potential"),
               Action("escalate", "high", "Human review required for viral violent content") >>,
            90, TRUE),
       Rule("moderate_hate_speech",
            Conditions(<<60>>, <<85>>, <<>>, {"hate_speech"}, {}, FALSE),
            << Action("flag", "medium", "Hate speech detected"),
               Action("warn", "medium", "Community guidelines violation") >>,
            70, TRUE),
       Rule("dangerous_challenge_tiktok",
            Conditions(<<70>>, <<>>, <<>>, {"dangerous_challenge"}, {"tiktok"}, FALSE),
            << Action("remove", "high", "Dangerous challenge removed for safety"),
               Action("notify", "high", "Dangerous trend alert") >>,
            85, TRUE),
       Rule("low_confidence_high_harm",
            Conditions(<<80>>, <<>>, <<0>>, {}, {}, FALSE),
            << Action("escalate", "medium", "Low confidence high harm - needs human review") >>,
            60, TRUE) >>

\* ------------------------------------------------------------------ content store

\* Content.findById(undefined), the id of an item that was never a document
Undefined == "undefined"

ContentIds == {"c1", "c2"}

Engagement(likes, shares, comments, views) ==
    [likes |-> likes, shares |-> shares, comments |-> comments, views |-> views]

\* a document as saveContent creates it: no moderation marker is set
NewContent(platform, platformId, engagement) ==
    [platform |-> platform, platformId |-> platformId, engagement |-> engagement,
     processingStatus |-> "pending", analysisResults |-> <<>>,
     flagged |-> FALSE, flags |-> <<>>,
     removed |-> FALSE, removeReason |-> "",
     escalated |-> FALSE, escalationReason |-> "", reviewPriority |-> "",
     userWarned |-> FALSE, warningReason |-> "",
     quarantined |-> FALSE, quarantineReason |-> "", requiresReview |-> FALSE]

Exists(docs, contentId) == contentId \in DOMAIN docs

\* Content.findByIdAndUpdate(contentId, {$set: fields}): nothing when the id
\* matches no document
flagContent(docs, contentId, action) ==
    IF ~Exists(docs, contentId) THEN docs
    ELSE [docs EXCEPT ![contentId].flagged = TRUE,
                      ![contentId].flags = <<action.reason, action.severity>>]

setRemoved(docs, contentId, action) ==
    IF ~Exists(docs, contentId) THEN docs
    ELSE [docs EXCEPT ![contentId].removed = TRUE,
                      ![contentId].removeReason = action.reason]

setEscalated(docs, contentId, action) ==
    IF ~Exists(docs, contentId) THEN docs
    ELSE [docs EXCEPT ![contentId].escalated = TRUE,
                      ![contentId].escalationReason = action.reason,
                      ![contentId].reviewPriority = action.severity]

warnUser(docs, contentId, action) ==
    IF ~Exists(docs, contentId) THEN docs
    ELSE [docs EXCEPT ![contentId].userWarned = TRUE,
                      ![contentId].warningReason = action.reason]

quarantineContent(docs, contentId, action) ==
    IF ~Exists(docs, contentId) THEN docs
    ELSE [docs EXCEPT ![contentId].quarantined = TRUE,
                      ![contentId].quarantineReason = action.reason,
                      ![contentId].requiresReview = TRUE]

\* ------------------------------------------------------------------ Bull queues

QueueNames == {"automated-response", "escalation", "content-ingestion", "content-processing"}

\* defaultJobOptions.attempts of each queue
ResponseAttempts == 3
EscalationAttempts == 2
IngestionAttempts == 3
ProcessingAttempts == 5

attemptsOf(queue) ==
    CASE queue = "automated-response" -> ResponseAttempts
      [] queue = "escalation" -> EscalationAttempts
      [] queue = "content-ingestion" -> IngestionAttempts
      [] queue = "content-processing" -> ProcessingAttempts

\* Queue.add(name, data, opts): the job waits (its delay and its backoff are
\* times, which the model does not measure: a waiting job is taken at any
\* later moment); attemptsMade counts the calls of the handler. A call of a
\* handler is one step, from the moment a worker takes the job to the return
\* of the handler or to the await that throws, so no job is seen active and
\* the worker counts given to Queue.process never bind.
NewJob(name, data, priority, delay) ==
    [name |-> name, data |-> data, priority |-> priority, delay |-> delay,
     state |-> "waiting", attemptsMade |-> 0,
     actions |-> <<>>, started |-> <<>>]

\* the job a worker takes next: the most urgent waiting job, the oldest among
\* equals
isNext(queue, i) ==
    /\ i \in 1..Len(queues[queue])
    /\ queues[queue][i].state = "waiting"
    /\ \A k \in 1..Len(queues[queue]) :
          queues[queue][k].state = "waiting" =>
              \/ queues[queue][k].priority > queues[queue][i].priority
              \/ queues[queue][k].priority = queues[queue][i].priority /\ k >= i

\* a worker takes the job and calls the handler
taken(job) == [job EXCEPT !.state = "active", !.attemptsMade = @ + 1,
                          !.actions = <<>>, !.started = <<>>]

\* the handler threw: a job that has attempts left waits for its backoff and
\* is taken again, a job that has none is failed
thrownOnceMore(queue, job) ==
    [job EXCEPT !.state = IF job.attemptsMade <= attemptsOf(queue) THEN "waiting" ELSE "failed"]

thrown(queue, job) ==
    [job EXCEPT !.state = IF job.attemptsMade < attemptsOf(queue) THEN "waiting" ELSE "failed"]

\* the handler returned
returned(job) == [job EXCEPT !.state = "completed"]

\* ------------------------------------------------------------------ response executor

\* parseFloat(process.env.AUTO_ACTION_THRESHOLD || '0.95')
autoActionThreshold == 95

DetectionResult(harmfulnessScore, categories, confidence) ==
    [harmfulnessScore |-> harmfulnessScore, categories |-> categories,
     confidence |-> confidence]

\* the detection results processContent is called with
ResponseInputs ==
    { DetectionResult(95, {"self_harm"}, 90),
      DetectionResult(82, {"self_harm"}, 90),
      DetectionResult(85, {"hate_speech"}, 60),
      DetectionResult(70, {"hate_speech"}, 90),
      DetectionResult(10, {}, 90) }

\* the detection results processContent is called with where the four queues
\* are examined together
QueueInputs ==
    { DetectionResult(82, {"self_harm"}, 90),
      DetectionResult(10, {}, 90) }

RQ == "automated-response"
EQ == "escalation"
IQ == "content-ingestion"
PQ == "content-processing"

\* processContent(contentId, detectionResult); when Queue.add throws nothing
\* is added and the error goes to the caller
processContent(contentId, detectionResult) ==
    /\ Len(queues[RQ]) < MaxResponseJobs
    /\ \E added \in BOOLEAN :
          LET urgency == determineUrgency(detectionResult)
              jobData == [contentId |-> contentId, detectionResult |-> detectionResult,
                          urgency |-> urgency]
              priority == getJobPriority(urgency)
              delay == IF urgency = "critical" THEN 0 ELSE 1000
          IN  queues' = IF added
                        THEN [queues EXCEPT ![RQ] =
                                 Append(@, NewJob("handle-content", jobData, priority, delay))]
                        ELSE queues
    /\ UNCHANGED <<callArg, callRet, content, escalationRules, response_log, escalation, trendVars, rate_limit, requests>>

\* removeContent hands a removal below the threshold to escalateToHuman
removesAlways(action, detectionResult) == action.type = "remove"

removes(action, detectionResult) ==
    action.type = "remove" /\ ~(detectionResult.harmfulnessScore < autoActionThreshold)

escalates(action, detectionResult) ==
    \/ action.type = "escalate"
    \/ action.type = "remove" /\ ~removes(action, detectionResult)

escalationAddedTwice(queue, contentId, action, detectionResult) ==
    LET job == NewJob("escalate-content",
                      [contentId |-> contentId, action |-> action,
                       detectionResult |-> detectionResult],
                      getActionPriority(action), 0)
    IN  queue \o <<job, job>>

\* the escalation queue after escalateToHuman's Queue.add
escalationAdded(queue, contentId, action, detectionResult) ==
    Append(queue, NewJob("escalate-content",
                         [contentId |-> contentId, action |-> action,
                          detectionResult |-> detectionResult],
                         getActionPriority(action), 0))

\* the documents after the handler of the action has written
written(docs, contentId, action, detectionResult) ==
    CASE action.type = "flag" -> flagContent(docs, contentId, action)
      [] removes(action, detectionResult) -> setRemoved(docs, contentId, action)
      [] escalates(action, detectionResult) -> setEscalated(docs, contentId, action)
      [] action.type = "warn" -> warnUser(docs, contentId, action)
      [] action.type = "quarantine" -> quarantineContent(docs, contentId, action)
      [] OTHER -> docs

\* what one call of executeAction can come to: every handler but
\* notifyStakeholders awaits the store and throws when the store does, and
\* escalateToHuman can throw between its Queue.add and its update
Outcomes(action, detectionResult) ==
    {"ok"} \cup (IF action.type = "notify" THEN {} ELSE {"throws"})
           \cup (IF escalates(action, detectionResult) THEN {"throws after add"} ELSE {})

\* executeAction on the documents and the escalation queue
executeAction(st, contentId, action, detectionResult, outcome) ==
    [docs |-> IF outcome = "ok"
              THEN written(st.docs, contentId, action, detectionResult)
              ELSE st.docs,
     queue |-> IF escalates(action, detectionResult) /\ outcome # "throws"
               THEN escalationAdded(st.queue, contentId, action, detectionResult)
               ELSE st.queue]

\* the loop of processContentResponse over actions that all succeed
RECURSIVE executeActions(_, _, _, _)
executeActions(st, contentId, actions, detectionResult) ==
    IF actions = <<>> THEN st
    ELSE executeActions(executeAction(st, contentId, Head(actions), detectionResult, "ok"),
                        contentId, Tail(actions), detectionResult)

\* the courses one call of processContentResponse can take once the document
\* is found: `done` actions succeed, then the next action throws, or
\* logResponseActions pushes the entry or throws
Runs(actions, detectionResult) ==
    {run \in [done : 0..Len(actions),
              outcome : {"throws", "throws after add", "log throws", "logged"}] :
        IF run.done < Len(actions)
        THEN run.outcome \in Outcomes(actions[run.done + 1], detectionResult) \ {"ok"}
        ELSE run.outcome \in {"log throws", "logged"}}

logResponseActionsTwice(log, contentId, actions, detectionResult) ==
    LET logEntry == [contentId |-> contentId, actions |-> actions,
                     detectionResult |-> detectionResult]
    IN  <<logEntry, logEntry>> \o log

\* redis.lPush('response_log', logEntry)
logResponseActions(log, contentId, actions, detectionResult) ==
    LET logEntry == [contentId |-> contentId, actions |-> actions,
                     detectionResult |-> detectionResult]
    IN  <<logEntry>> \o log

\* one call of the handler of the response queue, to its return or to the
\* await that throws
processContentResponse(i) ==
    /\ isNext(RQ, i)
    /\ LET job == taken(queues[RQ][i])
           contentId == job.data.contentId
           detectionResult == job.data.detectionResult
       IN  \E found \in BOOLEAN :
              IF ~(found /\ Exists(content, contentId))
              THEN /\ queues' = [queues EXCEPT ![RQ][i] = thrown(RQ, job)]
                   /\ UNCHANGED <<content, response_log>>
              ELSE LET applicableRules ==
                           findApplicableRules(detectionResult, content[contentId])
                       actions == consolidateActions(applicableRules)
                   IN  \E run \in Runs(actions, detectionResult) :
                          LET before == executeActions(
                                  [docs |-> content, queue |-> queues[EQ]], contentId,
                                  SubSeq(actions, 1, run.done), detectionResult)
                              after == IF run.done < Len(actions)
                                       THEN executeAction(before, contentId,
                                                actions[run.done + 1], detectionResult,
                                                run.outcome)
                                       ELSE before
                              begun == IF run.done < Len(actions) THEN run.done + 1
                                       ELSE run.done
                              ran == [job EXCEPT !.actions = actions,
                                                 !.started = SubSeq(actions, 1, begun)]
                          IN  /\ Len(after.queue) <= MaxEscalationJobs
                              /\ content' = after.docs
                              /\ response_log' =
                                    IF run.outcome = "logged"
                                    THEN logResponseActions(response_log, contentId,
                                                            actions, detectionResult)
                                    ELSE response_log
                              /\ queues' = [queues EXCEPT
                                    ![RQ][i] = IF run.outcome = "logged"
                                               THEN returned(ran)
                                               ELSE thrown(RQ, ran),
                                    ![EQ] = after.queue]
    /\ UNCHANGED <<callArg, callRet, escalationRules, escalation, trendVars, rate_limit, requests>>

\* processEscalation: handleEscalation pushes onto the list of the severity
processEscalation(i) ==
    /\ isNext(EQ, i)
    /\ \E pushed \in BOOLEAN :
          LET job == taken(queues[EQ][i])
              escalationData == [contentId |-> job.data.contentId,
                                 action |-> job.data.action,
                                 detectionResult |-> job.data.detectionResult,
                                 priority |-> job.data.action.severity]
          IN  /\ escalation' =
                    IF pushed
                    THEN [escalation EXCEPT ![job.data.action.severity] =
                              <<escalationData>> \o @]
                    ELSE escalation
              /\ queues' = [queues EXCEPT ![EQ][i] =
                                IF pushed THEN returned(job) ELSE thrown(EQ, job)]
    /\ UNCHANGED <<callArg, callRet, content, escalationRules, response_log, trendVars, rate_limit, requests>>

\* the rule sets an operator loads
OperatorRules ==
    << Rule("review_everything", NoConditions,
            << Action("escalate", "medium", "review_everything"),
               Action("remove", "low", "review_everything") >>,
            10, TRUE),
       Rule("harmful", Conditions(<<80>>, <<>>, <<>>, {}, {}, FALSE),
            << Action("escalate", "medium", "harmful"),
               Action("flag", "high", "harmful") >>,
            50, TRUE) >>

RuleSets == {getDefaultEscalationRules, OperatorRules}

updateEscalationRules(rules) ==
    /\ escalationRules' = rules
    /\ UNCHANGED <<callArg, callRet, content, queues, response_log, escalation, trendVars, rate_limit, requests>>

\* the jobs of a queue that are in a state
jobsIn(queue, state) == {i \in DOMAIN queues[queue] : queues[queue][i].state = state}

\* what getQueueStats of the response service returns
getQueueStats ==
    [response |-> [waiting |-> Cardinality(jobsIn(RQ, "waiting")),
                   active |-> Cardinality(jobsIn(RQ, "active"))],
     escalation |-> [waiting |-> Cardinality(jobsIn(EQ, "waiting")),
                     active |-> Cardinality(jobsIn(EQ, "active"))]]

\* ------------------------------------------------------------------ ingestion

\* the platforms setupAdapters registers
Adapters == {"twitter", "youtube", "instagram", "tiktok"}

\* the platforms POST /content/ingest is called with
IngestPlatforms == {"youtube", "myspace"}

\* what adapter.collectContent returns: plain objects, which carry no _id
CollectedItems(platform) ==
    { <<>>,
      << [platform |-> platform, platformId |-> "v2",
          engagement |-> Engagement(10, 0, 2, <<500>>), _id |-> Undefined] >> }

addIngestionJob(platform) ==
    /\ Len(queues[IQ]) < MaxIngestionJobs
    /\ queues' = [queues EXCEPT ![IQ] =
                     Append(@, NewJob("collect-content", [platform |-> platform], 0, 0))]
    /\ UNCHANGED <<callArg, callRet, content, escalationRules, response_log, escalation, trendVars, rate_limit, requests>>

\* saveContent: the document of (platform, platformId) is updated, or a new
\* one is created as pending
saveContent(docs, item) ==
    LET same == {id \in DOMAIN docs : /\ docs[id].platform = item.platform
                                      /\ docs[id].platformId = item.platformId}
        free == ContentIds \ DOMAIN docs
    IN  IF same # {}
        THEN LET id == CHOOSE id \in same : TRUE
             IN  [docs EXCEPT ![id].engagement = item.engagement]
        ELSE LET id == CHOOSE id \in free : TRUE
             IN  docs @@ (id :> NewContent(item.platform, item.platformId,
                                           item.engagement))

\* processIngestionJob for a collection of at most one item
processIngestionJob(i) ==
    /\ isNext(IQ, i)
    /\ LET job == taken(queues[IQ][i])
           platform == job.data.platform
       IN  \E items \in CollectedItems(platform),
              outcome \in {"ok", "collect throws", "save throws", "add throws"} :
              LET collected == platform \in Adapters /\ outcome # "collect throws"
                  saved == collected /\ items # <<>> /\ outcome # "save throws"
                  added == saved /\ outcome # "add throws"
                  done == collected /\ (items = <<>> \/ added)
              IN  /\ content' = IF saved THEN saveContent(content, items[1]) ELSE content
                  /\ queues' = [queues EXCEPT
                        ![IQ][i] = IF done THEN returned(job) ELSE thrown(IQ, job),
                        ![PQ] = IF added
                                THEN Append(@, NewJob("process-content",
                                                      [contentId |-> items[1]._id], 0, 0))
                                ELSE @]
    /\ UNCHANGED <<callArg, callRet, escalationRules, response_log, escalation, trendVars, rate_limit, requests>>

\* processContentJob: the document is found and saved as processing, or an
\* await throws (the document is not found, the store fails) and the catch
\* block marks as failed the document its findByIdAndUpdate comes to, if
\* any, before it throws again. For an id that is undefined the filter of the
\* update is {_id: undefined}, which Mongoose runs, by its version, as
\* {_id: null}, matching nothing, or as {}, matching whichever document
\* comes first
processContentJob(i) ==
    /\ isNext(PQ, i)
    /\ LET job == taken(queues[PQ][i])
           contentId == job.data.contentId
           updatedById == IF contentId = Undefined THEN {<<d>> : d \in DOMAIN content}
                          ELSE IF Exists(content, contentId) THEN {<<contentId>>}
                          ELSE {}
       IN  \E outcome \in {"throws"} \cup (IF Exists(content, contentId)
                                          THEN {"saved"} ELSE {}) :
              \E hit \in IF outcome = "saved" THEN {<<>>} ELSE {<<>>} \cup updatedById :
                 /\ content' =
                       IF outcome = "saved"
                       THEN [content EXCEPT ![contentId].processingStatus = "processing"]
                       ELSE IF hit # <<>>
                       THEN [content EXCEPT ![hit[1]].processingStatus = "failed"]
                       ELSE content
                 /\ queues' = [queues EXCEPT ![PQ][i] =
                                   IF outcome = "saved" THEN returned(job)
                                   ELSE thrown(PQ, job)]
    /\ UNCHANGED <<callArg, callRet, escalationRules, response_log, escalation, trendVars,
                   rate_limit, requests>>

\* ------------------------------------------------------------------ detection

\* the results ensembleClassifier.combine gives
AnalysisResults ==
    { DetectionResult(82, {"self_harm"}, 90),
      DetectionResult(10, {}, 90) }

\* saveAnalysisResults: Content.findByIdAndUpdate(contentId, {$set: ...})
saveAnalysisResults(docs, contentId, result) ==
    IF ~Exists(docs, contentId) THEN docs
    ELSE [docs EXCEPT ![contentId].processingStatus = "completed",
                      ![contentId].analysisResults = <<result>>]

\* analyzeContent, as POST /content/:id/analyze and POST /content/batch-analyze
\* call it: the document is read, classified, and the result saved and
\* returned to the caller; a document that is not found, a classifier or the
\* update that throws end the call with nothing saved
analyzeContent(contentId) ==
    /\ \E finalResult \in AnalysisResults,
          outcome \in {"saved", "not found", "classify throws", "save throws"} :
          content' = IF outcome = "saved" /\ Exists(content, contentId)
                     THEN saveAnalysisResults(content, contentId, finalResult)
                     ELSE content
    /\ UNCHANGED <<callArg, callRet, escalationRules, queues, response_log, escalation,
                   trendVars, rate_limit, requests>>

\* ------------------------------------------------------------------ trend scoring

\* a JavaScript number that is a quotient is kept as a fraction in lowest
\* terms; den = 0 stands for Infinity (num = 1) and for NaN (num = 0)
RECURSIVE gcd(_, _)
gcd(a, b) == IF b = 0 THEN a ELSE gcd(b, a % b)

\* x / y of two numbers that are not negative
divide(x, y) ==
    IF y = 0 THEN [num |-> IF x = 0 THEN 0 ELSE 1, den |-> 0]
    ELSE [num |-> x \div gcd(x, y), den |-> y \div gcd(x, y)]

Zero == [num |-> 0, den |-> 1]

\* 1000 * 60 * 60: the milliseconds of an hour
MsPerHour == 3600000

calculateGrowthRateUnguarded(firstDetected, lastUpdated, contentCount) ==
    LET timeSpan == lastUpdated - firstDetected
    IN  IF timeSpan < 0 THEN Zero
        ELSE divide(contentCount * MsPerHour, timeSpan)

\* the dates are getTime() values, in milliseconds; timeSpanHours is
\* timeSpan / MsPerHour, so contentCount / timeSpanHours is
\* contentCount * MsPerHour / timeSpan
calculateGrowthRate(firstDetected, lastUpdated, contentCount) ==
    LET timeSpan == lastUpdated - firstDetected
    IN  IF timeSpan <= 0 THEN Zero
        ELSE divide(contentCount * MsPerHour, timeSpan)

Min(a, b) == IF a <= b THEN a ELSE b

\* harmfulnessScore and viralityScore are hundredths; the risk score is in
\* thousandths: 0.5 * harmfulness + 0.3 * virality + 0.2 * min(platforms / 5, 1)
riskScore(harmfulnessScore, viralityScore, platformCount) ==
    5 * harmfulnessScore + 3 * viralityScore + Min(40 * platformCount, 200)

calculateRiskLevelStrict(harmfulnessScore, viralityScore, platformCount) ==
    LET score == riskScore(harmfulnessScore, viralityScore, platformCount)
    IN  IF score > 850 THEN "critical"
        ELSE IF score > 700 THEN "high"
        ELSE IF score > 500 THEN "medium"
        ELSE "low"

calculateRiskLevel(harmfulnessScore, viralityScore, platformCount) ==
    LET score == riskScore(harmfulnessScore, viralityScore, platformCount)
    IN  IF score >= 850 THEN "critical"
        ELSE IF score >= 700 THEN "high"
        ELSE IF score >= 500 THEN "medium"
        ELSE "low"

\* ------------------------------------------------------------------ trend aggregation

\* the strings of the hashtags, keywords and categories met, in the order of
\* Array.prototype.sort() without a comparator (UTF-16 code units)
Lexicon ==
    << "cyberbullying", "dangerous_challenge", "extremism", "fraud", "harassment",
       "hate_speech", "illegal_activity", "misinformation", "self_harm",
       "sexual_content", "spam", "violence", "word", "x", "y", "z" >>

position(string) == CHOOSE i \in DOMAIN Lexicon : Lexicon[i] = string

RECURSIVE insertString(_, _)
insertString(sorted, string) ==
    IF sorted = <<>> THEN <<string>>
    ELSE IF position(string) < position(Head(sorted))
    THEN <<string>> \o sorted
    ELSE <<Head(sorted)>> \o insertString(Tail(sorted), string)

\* array.sort()
RECURSIVE sortStrings(_)
sortStrings(strings) ==
    IF strings = <<>> THEN <<>>
    ELSE insertString(sortStrings(SubSeq(strings, 1, Len(strings) - 1)),
                      strings[Len(strings)])

\* array.join(',')
RECURSIVE join(_)
join(strings) ==
    IF strings = <<>> THEN ""
    ELSE IF Len(strings) = 1 THEN strings[1]
    ELSE strings[1] \o "," \o join(Tail(strings))

\* array.flat() of an array of arrays
RECURSIVE flat(_)
flat(arrays) ==
    IF arrays = <<>> THEN <<>> ELSE Head(arrays) \o flat(Tail(arrays))

\* this.viralityThreshold
viralityThreshold == 1000

\* in hundredths: (min(contentCount / 100, 1) + min(averageEngagement /
\* viralityThreshold, 1)) / 2; the rows the store returns are such that the
\* quotients are whole
calculateViralityScore(contentCount, averageEngagement) ==
    (Min(contentCount, 100) + Min((100 * averageEngagement) \div viralityThreshold, 100))
        \div 2

\* createTrendData of the fields the three passes give it
createTrendData(data) ==
    LET viralityScore == calculateViralityScore(data.contentCount, data.averageEngagement)
        growthRate == calculateGrowthRate(data.firstDetected, data.lastUpdated,
                                          data.contentCount)
        platformCount == IF Len(data.platforms) = 0 THEN 1 ELSE Len(data.platforms)
        riskLevel == calculateRiskLevel(data.harmfulnessScore, viralityScore, platformCount)
    IN  [id |-> data.id, hashtags |-> data.hashtags, keywords |-> data.keywords,
         platforms |-> data.platforms, harmfulnessScore |-> data.harmfulnessScore,
         viralityScore |-> viralityScore, growthRate |-> growthRate,
         firstDetected |-> data.firstDetected, lastUpdated |-> data.lastUpdated,
         contentCount |-> data.contentCount,
         averageEngagement |-> data.averageEngagement,
         categories |-> data.categories, riskLevel |-> riskLevel]

\* the map of detectTrendingHashtags over the rows of its aggregation
hashtagTrend(result) ==
    createTrendData([id |-> "hashtag_" \o result._id,
                     hashtags |-> <<result._id>>, keywords |-> <<>>,
                     platforms |-> result.platforms,
                     harmfulnessScore |-> result.avgHarmfulnessScore,
                     contentCount |-> result.count,
                     averageEngagement |-> result.totalEngagement \div result.count,
                     categories |-> flat(result.categories),
                     firstDetected |-> result.firstSeen, lastUpdated |-> result.lastSeen])

\* the map of detectTrendingKeywords
keywordTrend(result) ==
    createTrendData([id |-> "keyword_" \o result._id,
                     hashtags |-> <<>>, keywords |-> <<result._id>>,
                     platforms |-> result.platforms,
                     harmfulnessScore |-> result.avgHarmfulnessScore,
                     contentCount |-> result.count,
                     averageEngagement |-> result.totalEngagement \div result.count,
                     categories |-> flat(result.categories),
                     firstDetected |-> result.firstSeen, lastUpdated |-> result.lastSeen])

\* the map of detectCrossPlatformTrends; index counts from 0
crossPlatformTrend(result, index) ==
    createTrendData([id |-> "crossplatform_" \o ToString(index),
                     hashtags |-> result._id.hashtags, keywords |-> <<>>,
                     platforms |-> result.platforms,
                     harmfulnessScore |-> result.avgHarmfulnessScore,
                     contentCount |-> result.count,
                     averageEngagement |-> result.totalEngagement \div result.count,
                     categories |-> result._id.categories,
                     firstDetected |-> result.firstSeen, lastUpdated |-> result.lastSeen])

\* getTrendKey sorts the three arrays of the trend in place
sortedInPlace(t) ==
    [t EXCEPT !.hashtags = sortStrings(t.hashtags),
              !.keywords = sortStrings(t.keywords),
              !.categories = sortStrings(t.categories)]

getTrendKey(t) ==
    join(sortStrings(t.hashtags)) \o "|" \o join(sortStrings(t.keywords)) \o "|"
        \o join(sortStrings(t.categories))

\* harmfulnessScore * viralityScore, in ten-thousandths
trendScore(t) == t.harmfulnessScore * t.viralityScore

\* the loop of consolidateTrends: seen holds the keys, consolidated the
\* trends pushed so far
RECURSIVE firstSeenTrends(_, _, _)
firstSeenTrends(trends, seen, consolidated) ==
    IF trends = <<>> THEN consolidated
    ELSE LET key == getTrendKey(Head(trends))
         IN  IF key \in seen
             THEN firstSeenTrends(Tail(trends), seen, consolidated)
             ELSE firstSeenTrends(Tail(trends), seen \cup {key},
                                  Append(consolidated, sortedInPlace(Head(trends))))

RECURSIVE insertTrend(_, _)
insertTrend(sorted, t) ==
    IF sorted = <<>> THEN <<t>>
    ELSE IF trendScore(t) > trendScore(Head(sorted))
    THEN <<t>> \o sorted
    ELSE <<Head(sorted)>> \o insertTrend(Tail(sorted), t)

RECURSIVE sortTrendsAscending(_)
sortTrendsAscending(trends) ==
    IF trends = <<>> THEN <<>>
    ELSE LET rest == sortTrendsAscending(Tail(trends))
             lower == SelectSeq(rest, LAMBDA t : trendScore(t) < trendScore(Head(trends)))
             upper == SelectSeq(rest, LAMBDA t : trendScore(t) >= trendScore(Head(trends)))
         IN  lower \o <<Head(trends)>> \o upper

\* sort((a, b) => bScore - aScore): descending, equal scores keep their order
RECURSIVE sortTrends(_)
sortTrends(trends) ==
    IF trends = <<>> THEN <<>>
    ELSE insertTrend(sortTrends(SubSeq(trends, 1, Len(trends) - 1)),
                     trends[Len(trends)])

consolidateTrends(trends) == sortTrends(firstSeenTrends(trends, {}, <<>>))

\* the rows Content.aggregate returns to the three passes: each list is what
\* its pipeline lets through (count and average harmfulness above the
\* minimum), ordered by descending count
hashtagRow(tag, count, categories) ==
    [_id |-> tag, count |-> count, platforms |-> <<"tiktok">>,
     avgHarmfulnessScore |-> 80, totalEngagement |-> 500 * count,
     categories |-> categories, firstSeen |-> 3600000, lastSeen |-> 14400000]

keywordRow(word, count, categories) ==
    [_id |-> word, count |-> count, platforms |-> <<"twitter", "youtube">>,
     avgHarmfulnessScore |-> 80, totalEngagement |-> 800 * count,
     categories |-> categories, firstSeen |-> 3600000, lastSeen |-> 7200000]

crossPlatformRow(categories, hashtags, platforms, avgHarmfulnessScore, count) ==
    [_id |-> [categories |-> categories, hashtags |-> hashtags], count |-> count,
     platforms |-> platforms, avgHarmfulnessScore |-> avgHarmfulnessScore,
     totalEngagement |-> 600 * count, firstSeen |-> 3600000, lastSeen |-> 3600000]

HashtagResults == { << hashtagRow("x", 12, << <<"self_harm">> >>) >> }

KeywordResults ==
    { << keywordRow("word", 20, << <<"hate_speech">>, <<"harassment", "hate_speech">> >>) >> }

selfHarmCluster(count) ==
    crossPlatformRow(<<"self_harm">>, <<"x">>, <<"tiktok", "twitter">>, 80, count)

violenceCluster(count) ==
    crossPlatformRow(<<"violence", "extremism">>, <<"y", "x">>,
                     <<"tiktok", "twitter", "youtube">>, 90, count)

violenceClusterReordered(count) ==
    crossPlatformRow(<<"extremism", "violence">>, <<"x", "y">>,
                     <<"instagram", "youtube">>, 90, count)

challengeCluster(count) ==
    crossPlatformRow(<<"dangerous_challenge">>, <<"z">>,
                     <<"instagram", "tiktok", "twitter", "youtube">>, 95, count)

CrossPlatformResults ==
    { << violenceCluster(40), selfHarmCluster(30), violenceClusterReordered(20) >>,
      << selfHarmCluster(40), violenceCluster(30) >>,
      << challengeCluster(100) >> }

\* one call of analyzeCurrentTrends: where it stands, its local variables,
\* whether its service has a redis client (initialize() gives it one), and
\* the errors its catch blocks have logged
NewAnalysis(origin, redis) ==
    [origin |-> origin, redis |-> redis, pc |-> "hashtags",
     trendingHashtags |-> <<>>, trendingKeywords |-> <<>>,
     crossPlatformTrends |-> <<>>, consolidatedTrends |-> <<>>,
     next |-> 0, logged |-> {}, injected |-> 0]

RECURSIVE injectedIn(_)
injectedIn(calls) ==
    IF calls = <<>> THEN 0 ELSE Head(calls).injected + injectedIn(Tail(calls))

\* whether one more await of this run may be made to throw
mayThrow == injectedIn(analyses) < MaxFailures

inProgress == {a \in DOMAIN analyses : analyses[a].pc \notin {"returned", "thrown"}}

\* the setInterval callback of startPeriodicAnalysis: a period has passed
startPeriodicAnalysis ==
    /\ Len(analyses) < MaxAnalyses
    /\ analyses' = Append(analyses, NewAnalysis("timer", TRUE))
    /\ now' = now + 1
    /\ UNCHANGED <<callArg, callRet, content, escalationRules, queues, response_log,
                   escalation, trend, trending_active, warning, warnings_active, warnings, rate_limit, requests>>

\* POST /analysis/trends/analyze: the route calls analyzeCurrentTrends of a
\* service of its own, on which initialize() is never called
postTrendsAnalyze ==
    /\ Len(analyses) < MaxAnalyses
    /\ analyses' = Append(analyses, NewAnalysis("manual", FALSE))
    /\ UNCHANGED <<callArg, callRet, content, escalationRules, queues, response_log,
                   escalation, trend, trending_active, warning, warnings_active, warnings, now, rate_limit, requests>>

RECURSIVE mapCrossPlatform(_, _)
mapCrossPlatform(results, index) ==
    IF results = <<>> THEN <<>>
    ELSE <<crossPlatformTrend(Head(results), index)>>
            \o mapCrossPlatform(Tail(results), index + 1)

\* the trends of a pass: its catch block turns an error into []
passThrows(call, pass, results, fails) ==
    IF fails THEN [call EXCEPT !.pc = "thrown"] ELSE call

passCaught(call, pass, results, fails) ==
    IF fails
    THEN [call EXCEPT !.logged = @ \cup {<<"pass", pass>>}, !.injected = @ + 1]
    ELSE call

detectTrendingHashtags(a) ==
    /\ a \in DOMAIN analyses
    /\ analyses[a].pc = "hashtags"
    /\ \E results \in HashtagResults, fails \in BOOLEAN :
          /\ fails => mayThrow
          /\ LET found == IF fails THEN <<>>
                          ELSE [i \in DOMAIN results |-> hashtagTrend(results[i])]
                 call == passCaught(analyses[a], 1, results, fails)
             IN  analyses' = [analyses EXCEPT ![a] =
                    IF call.pc = "thrown" THEN call
                    ELSE [call EXCEPT !.trendingHashtags = found, !.pc = "keywords"]]
    /\ UNCHANGED <<callArg, callRet, content, escalationRules, queues, response_log,
                   escalation, trend, trending_active, warning, warnings_active, warnings, now, rate_limit, requests>>

detectTrendingKeywords(a) ==
    /\ a \in DOMAIN analyses
    /\ analyses[a].pc = "keywords"
    /\ \E results \in KeywordResults, fails \in BOOLEAN :
          /\ fails => mayThrow
          /\ LET found == IF fails THEN <<>>
                          ELSE [i \in DOMAIN results |-> keywordTrend(results[i])]
                 call == passCaught(analyses[a], 2, results, fails)
             IN  analyses' = [analyses EXCEPT ![a] =
                    IF call.pc = "thrown" THEN call
                    ELSE [call EXCEPT !.trendingKeywords = found, !.pc = "crossplatform"]]
    /\ UNCHANGED <<callArg, callRet, content, escalationRules, queues, response_log,
                   escalation, trend, trending_active, warning, warnings_active, warnings, now, rate_limit, requests>>

\* where the loop over consolidatedTrends goes after the trend at index i
afterTrend(call, i) ==
    IF i < Len(call.consolidatedTrends)
    THEN [call EXCEPT !.next = i + 1, !.pc = "setEx"]
    ELSE [call EXCEPT !.next = 0, !.pc = "returned"]

\* detectCrossPlatformTrends, and consolidateTrends of the three lists
detectCrossPlatformTrends(a) ==
    /\ a \in DOMAIN analyses
    /\ analyses[a].pc = "crossplatform"
    /\ \E results \in CrossPlatformResults, fails \in BOOLEAN :
          /\ fails => mayThrow
          /\ LET found == IF fails THEN <<>> ELSE mapCrossPlatform(results, 0)
                 call == passCaught(analyses[a], 3, results, fails)
                 allTrends == call.trendingHashtags \o call.trendingKeywords \o found
             IN  analyses' = [analyses EXCEPT ![a] =
                    IF call.pc = "thrown" THEN call
                    ELSE afterTrend([call EXCEPT
                                        !.crossPlatformTrends = found,
                                        !.consolidatedTrends = consolidateTrends(allTrends)],
                                    0)]
    /\ UNCHANGED <<callArg, callRet, content, escalationRules, queues, response_log,
                   escalation, trend, trending_active, warning, warnings_active, warnings, now, rate_limit, requests>>

\* seconds: the expiry setEx gives a trend record and a warning
TrendTtl == 24 * 60 * 60
WarningTtl == 7 * 24 * 60 * 60

\* a loop that promotes every trend
afterStoreAlways(call, i) == [call EXCEPT !.pc = "warn"]

\* where analyzeCurrentTrends goes after storeTrendData of the trend at i
afterStore(call, i) ==
    IF call.consolidatedTrends[i].riskLevel \in {"high", "critical"}
    THEN [call EXCEPT !.pc = "warn"]
    ELSE afterTrend(call, i)

\* storeTrendData up to the end of its first await, redis.setEx: an error
\* (a TypeError when the service has no redis client) goes to the catch block
\* of storeTrendData and the trend gets no index entry
setEx(a) ==
    /\ a \in DOMAIN analyses
    /\ analyses[a].pc = "setEx"
    /\ LET call == analyses[a]
           i == call.next
           t == call.consolidatedTrends[i]
       IN  \E fails \in BOOLEAN :
              /\ fails => mayThrow
              /\ IF call.redis /\ ~fails
                 THEN /\ trend' = (t.id :> [value |-> t, ttl |-> TrendTtl]) @@ trend
                      /\ analyses' = [analyses EXCEPT ![a].pc = "zAdd"]
                 ELSE /\ trend' = trend
                      /\ analyses' = [analyses EXCEPT ![a] =
                            afterStore([call EXCEPT
                                           !.logged = @ \cup {<<"store", i>>},
                                           !.injected = IF call.redis THEN @ + 1 ELSE @],
                                       i)]
    /\ UNCHANGED <<callArg, callRet, content, escalationRules, queues, response_log,
                   escalation, trending_active, warning, warnings_active, warnings, now, rate_limit, requests>>

\* the second await of storeTrendData, redis.zAdd('trending:active', ...)
zAdd(a) ==
    /\ a \in DOMAIN analyses
    /\ analyses[a].pc = "zAdd"
    /\ LET call == analyses[a]
           i == call.next
           t == call.consolidatedTrends[i]
       IN  \E fails \in BOOLEAN :
              /\ fails => mayThrow
              /\ IF ~fails
                 THEN /\ trending_active' = (t.id :> trendScore(t)) @@ trending_active
                      /\ analyses' = [analyses EXCEPT ![a] = afterStore(call, i)]
                 ELSE /\ trending_active' = trending_active
                      /\ analyses' = [analyses EXCEPT ![a] =
                            afterStore([call EXCEPT !.logged = @ \cup {<<"store", i>>},
                                                    !.injected = @ + 1],
                                       i)]
    /\ UNCHANGED <<callArg, callRet, content, escalationRules, queues, response_log,
                   escalation, trend, warning, warnings_active, warnings, now, rate_limit, requests>>

\* the period of the setInterval of startPeriodicAnalysis, 5 * 60 * 1000 ms,
\* in seconds
AnalysisPeriod == 300

\* the retention window of the trend records passes, in which the cycles of
\* the timer find no trend to store: redis removes every key 'trend:<id>',
\* set with EX TrendTtl, and nothing else; the warnings, set with EX
\* WarningTtl, stay
expireTrends ==
    /\ now < MaxWindows * (TrendTtl \div AnalysisPeriod)
    /\ inProgress = {}
    /\ trend # <<>>
    /\ trend' = <<>>
    /\ now' = now + TrendTtl \div AnalysisPeriod
    /\ UNCHANGED <<callArg, callRet, content, escalationRules, queues, response_log,
                   escalation, analyses, trending_active, warning, warnings_active,
                   warnings, rate_limit, requests>>

\* zRange('trending:active', 0, 19, { REV: true }) reads 20 ids
SummaryWindow == 20

\* the ids getTrendingSummary reads from the index: those with fewer than
\* SummaryWindow ids of a higher score
trendIds ==
    {id \in DOMAIN trending_active :
        Cardinality({other \in DOMAIN trending_active :
                        trending_active[other] > trending_active[id]}) < SummaryWindow}

toUpperCase(riskLevel) ==
    CASE riskLevel = "low" -> "LOW" [] riskLevel = "medium" -> "MEDIUM"
      [] riskLevel = "high" -> "HIGH" [] riskLevel = "critical" -> "CRITICAL"

generateWarningTitle(t) ==
    LET type == IF Len(t.hashtags) > 0 THEN "hashtag" ELSE "keyword"
        identifier == IF Len(t.hashtags) > 0 THEN t.hashtags[1]
                      ELSE IF Len(t.keywords) > 0 THEN t.keywords[1]
                      ELSE "content"
    IN  toUpperCase(t.riskLevel) \o " Risk: Trending " \o type \o " \"" \o identifier \o "\""

\* number.toFixed(1), in tenths
toFixed1(number) == (20 * number.num + number.den) \div (2 * number.den)

\* the three values generateWarningDescription puts into its sentence
generateWarningDescription(t) ==
    [platforms |-> t.platforms,
     categories |-> SubSeq(t.categories, 1, Min(3, Len(t.categories))),
     growthRate |-> toFixed1(t.growthRate)]

generateRecommendedActions(t) ==
    (IF t.riskLevel = "critical"
     THEN << "Immediate human review required", "Consider emergency content removal",
             "Notify platform partners" >>
     ELSE <<>>)
    \o (IF t.riskLevel = "high"
        THEN << "Escalate to senior moderators", "Increase monitoring frequency",
                "Prepare response guidelines" >>
        ELSE <<>>)
    \o (IF Len(t.platforms) > 2 THEN <<"Coordinate cross-platform response">> ELSE <<>>)
    \o (IF \E k \in DOMAIN t.categories : t.categories[k] = "self_harm"
        THEN <<"Alert mental health support teams">> ELSE <<>>)
    \o (IF \E k \in DOMAIN t.categories : t.categories[k] = "dangerous_challenge"
        THEN <<"Issue safety warnings">> ELSE <<>>)

EarlyWarning(t, at) ==
    [id |-> "warning_" \o t.id \o "_" \o ToString(at),
     title |-> generateWarningTitle(t),
     description |-> generateWarningDescription(t),
     severity |-> t.riskLevel,
     trendData |-> t,
     recommendedActions |-> generateRecommendedActions(t),
     createdAt |-> at]

\* generateEarlyWarning: setEx of the warning, then lPush of its id; its catch
\* block logs an error of either
generateEarlyWarning(a) ==
    /\ a \in DOMAIN analyses
    /\ analyses[a].pc = "warn"
    /\ LET call == analyses[a]
           i == call.next
           w == EarlyWarning(call.consolidatedTrends[i], now)
       IN  \E outcome \in {"ok", "setEx throws", "lPush throws"} :
              /\ outcome # "ok" => mayThrow
              /\ LET stored == call.redis /\ outcome # "setEx throws"
                     listed == stored /\ outcome = "ok"
                 IN  /\ warning' = IF stored
                                   THEN (w.id :> [value |-> w, ttl |-> WarningTtl]) @@ warning
                                   ELSE warning
                     /\ warnings_active' = IF listed THEN <<w.id>> \o warnings_active
                                           ELSE warnings_active
                     /\ analyses' = [analyses EXCEPT ![a] =
                           afterTrend(IF listed THEN call
                                      ELSE [call EXCEPT
                                               !.logged = @ \cup {<<"warn", i>>},
                                               !.injected = IF call.redis THEN @ + 1 ELSE @],
                                      i)]
    /\ UNCHANGED <<callArg, callRet, content, escalationRules, queues, response_log,
                   escalation, trend, trending_active, warnings, now, rate_limit, requests>>

\* ------------------------------------------------------------------ the alert routes

\* redis.lRange(key, 0, stop) of a list held head first
lRange(list, stop) == SubSeq(list, 1, Min(stop + 1, Len(list)))

\* redis.get('warning:<id>') and JSON.parse of it: <<>> when the key is absent
getWarning(id) == IF id \in DOMAIN warning THEN <<warning[id].value>> ELSE <<>>

\* alerts.filter(Boolean) of the values read for the ids
RECURSIVE readAlerts(_)
readAlerts(alertIds) ==
    IF alertIds = <<>> THEN <<>>
    ELSE getWarning(Head(alertIds)) \o readAlerts(Tail(alertIds))

\* the number of alerts GET /alerts returns when the query has no limit
DefaultLimit == 20

\* the response of GET /alerts, with ?severity=<severity> or without (<<>>):
\* the route reads the lists and the warnings and writes nothing
getAlerts(severity) ==
    LET alertIds ==
           IF severity # <<>> /\ severity[1] \in Severities
           THEN lRange(warnings[severity[1]], DefaultLimit - 1)
           ELSE lRange(lRange(warnings["critical"], 5) \o lRange(warnings["high"], 10)
                          \o lRange(warnings["medium"], 10) \o lRange(warnings["low"], 5),
                       DefaultLimit - 1)
        alerts == readAlerts(alertIds)
    IN  [alerts |-> alerts, total |-> Len(alerts),
         severity |-> IF severity # <<>> THEN severity[1] ELSE "all"]

\* the response of GET /alerts/stats/summary
getAlertsSummary ==
    LET critical == Len(warnings["critical"])
        high == Len(warnings["high"])
        medium == Len(warnings["medium"])
        low == Len(warnings["low"])
    IN  [summary |-> [total |-> critical + high + medium + low,
                      bySeverity |-> [critical |-> critical, high |-> high,
                                      medium |-> medium, low |-> low]]]

\* the warnings that carry an acknowledgement
acknowledged == {id \in DOMAIN warning : "acknowledgedAt" \in DOMAIN warning[id].value}

\* an acknowledgement that also restamps the warning
acknowledgedAlertRestamped(alert, acknowledgedBy, at) ==
    ("acknowledgedAt" :> at) @@ ("acknowledgedBy" :> "unknown")
        @@ [alert EXCEPT !.createdAt = at]

\* the parsed warning with alert.acknowledgedAt and alert.acknowledgedBy set
acknowledgedAlert(alert, acknowledgedBy, at) ==
    ("acknowledgedAt" :> at)
        @@ ("acknowledgedBy" :> IF acknowledgedBy # <<>> THEN acknowledgedBy[1]
                                ELSE "unknown")
        @@ alert

\* POST /alerts/:id/acknowledge with body { acknowledgedBy } (<<>> when the
\* body has none): the stored warning is read, given the two fields and
\* written back with a new 7-day expiry
acknowledge(id, acknowledgedBy) ==
    /\ Cardinality(acknowledged \cup {id}) <= MaxAcknowledged
    /\ callArg' = [route |-> "POST /alerts/:id/acknowledge", id |-> id,
                   acknowledgedBy |-> acknowledgedBy]
    /\ IF getWarning(id) = <<>>
       THEN /\ callRet' = <<[status |-> 404, error |-> "Alert not found"]>>
            /\ warning' = warning
       ELSE LET alert == acknowledgedAlert(getWarning(id)[1], acknowledgedBy, now)
            IN  /\ warning' = [warning EXCEPT ![id] = [value |-> alert,
                                                       ttl |-> 7 * 24 * 60 * 60]]
                /\ callRet' = <<[status |-> 200, message |-> "Alert acknowledged",
                                 alert |-> alert]>>
    /\ UNCHANGED <<content, escalationRules, queues, response_log, escalation,
                   analyses, trend, trending_active, warnings_active, warnings, now, rate_limit, requests>>

\* ------------------------------------------------------------------ the service

\* ------------------------------------------------------------------ the rate limiter

\* opts.maxRequests, with RATE_LIMIT_MAX_REQUESTS=2 in the environment
maxRequests == 2

\* opts.windowMs, 900000 ms, in periods of the analysis timer (300000 ms)
windowMs == 3

\* a request of a client (keyGenerator gives req.ip) reaches the middleware:
\* lines 24-28, which end at the await of redis.get
rateLimiter(client) ==
    /\ Len(requests) < MaxRequests
    /\ requests' = Append(requests,
                          [key |-> client, window |-> now \div windowMs,
                           pc |-> "get", count |-> 0, status |-> 0, next |-> FALSE])
    /\ UNCHANGED <<callArg, callRet, content, escalationRules, queues, response_log,
                   escalation, trendVars, rate_limit>>

\* redis.get returns: the count is read and compared (lines 30-47), and a
\* request over the limit is answered with 429 and not passed on; a redis
\* that throws takes the request to the catch block, which calls next()
get(r) ==
    /\ r \in DOMAIN requests
    /\ requests[r].pc = "get"
    /\ LET req == requests[r]
           windowKey == <<req.key, req.window>>
           count == IF windowKey \in DOMAIN rate_limit THEN rate_limit[windowKey] ELSE 0
       IN  \E fails \in BOOLEAN :
              requests' = [requests EXCEPT ![r] =
                  IF fails THEN [req EXCEPT !.pc = "done", !.next = TRUE]
                  ELSE IF count >= maxRequests
                  THEN [req EXCEPT !.pc = "done", !.status = 429]
                  ELSE [req EXCEPT !.pc = "setEx", !.count = count]]
    /\ UNCHANGED <<callArg, callRet, content, escalationRules, queues, response_log,
                   escalation, trendVars, rate_limit>>

\* redis.setEx(windowKey, ttl, count + 1) returns and the request is passed
\* on (lines 49-55), or throws and the request is passed on by the catch
\* block; the key outlives its window, so its expiry is not a step
increment(r) ==
    /\ r \in DOMAIN requests
    /\ requests[r].pc = "setEx"
    /\ LET req == requests[r]
           windowKey == <<req.key, req.window>>
       IN  \E fails \in BOOLEAN :
              /\ rate_limit' = IF fails THEN rate_limit
                               ELSE (windowKey :> req.count + 1) @@ rate_limit
              /\ requests' = [requests EXCEPT ![r] =
                                  [req EXCEPT !.pc = "done", !.next = TRUE]]
    /\ UNCHANGED <<callArg, callRet, content, escalationRules, queues, response_log,
                   escalation, trendVars>>

\* a period of the timer passes
period ==
    /\ now < MaxPeriods
    /\ now' = now + 1
    /\ UNCHANGED <<callArg, callRet, content, escalationRules, queues, response_log,
                   escalation, analyses, trend, trending_active, warning, warnings_active,
                   warnings, rate_limit, requests>>

\* the store holds one collected item when the services are constructed
InitialContent ==
    "c1" :> NewContent("tiktok", "t1", Engagement(900, 150, 50, <<>>))

Init ==
    /\ callArg = <<>>
    /\ callRet = <<>>
    /\ content = InitialContent
    /\ escalationRules = getDefaultEscalationRules
    /\ queues = [q \in QueueNames |-> <<>>]
    /\ response_log = <<>>
    /\ escalation = [s \in Severities |-> <<>>]
    /\ analyses = <<>>
    /\ trend = <<>>
    /\ trending_active = <<>>
    /\ warning = <<>>
    /\ warnings_active = <<>>
    /\ warnings = [s \in Severities |-> <<>>]
    /\ now = 0
    /\ rate_limit = <<>>
    /\ requests = <<>>

\* the response service: AutomatedResponseService
Next ==
    \/ \E contentId \in ContentIds, detectionResult \in ResponseInputs :
          processContent(contentId, detectionResult)
    \/ \E i \in 1..Len(queues[RQ]) : processContentResponse(i)
    \/ \E i \in 1..Len(queues[EQ]) : processEscalation(i)
    \/ \E rules \in RuleSets : updateEscalationRules(rules)

Spec == Init /\ [][Next]_vars

\* the four queues of the response service and the ingestion service, the
\* rules left as they are loaded
NextQueues ==
    \/ \E detectionResult \in QueueInputs : processContent("c1", detectionResult)
    \/ \E i \in 1..Len(queues[RQ]) : processContentResponse(i)
    \/ \E i \in 1..Len(queues[EQ]) : processEscalation(i)
    \/ \E platform \in IngestPlatforms : addIngestionJob(platform)
    \/ \E i \in 1..Len(queues[IQ]) : processIngestionJob(i)
    \/ \E i \in 1..Len(queues[PQ]) : processContentJob(i)

SpecQueues == Init /\ [][NextQueues]_vars

\* the server as index.ts and the content routes run it: collection, the
\* processing queue, and the analysis of a stored item on request; the
\* workers of the four queues take every job that waits
NextPipeline ==
    \/ \E platform \in IngestPlatforms : addIngestionJob(platform)
    \/ \E i \in 1..Len(queues[IQ]) : processIngestionJob(i)
    \/ \E i \in 1..Len(queues[PQ]) : processContentJob(i)
    \/ \E contentId \in ContentIds : analyzeContent(contentId)

SpecPipeline ==
    /\ Init
    /\ [][NextPipeline]_vars
    /\ WF_vars(\E i \in 1..Len(queues[IQ]) : processIngestionJob(i))
    /\ WF_vars(\E i \in 1..Len(queues[PQ]) : processContentJob(i))
    /\ WF_vars(\E i \in 1..Len(queues[RQ]) : processContentResponse(i))
    /\ WF_vars(\E i \in 1..Len(queues[EQ]) : processEscalation(i))

\* processContent called once more with the content id and the detection
\* result of the first response job
processContentAgain ==
    /\ Len(queues[RQ]) >= 1
    /\ Len(queues[RQ]) < MaxReprocess
    /\ \E added \in BOOLEAN :
          LET contentId == queues[RQ][1].data.contentId
              detectionResult == queues[RQ][1].data.detectionResult
              urgency == determineUrgency(detectionResult)
              jobData == [contentId |-> contentId, detectionResult |-> detectionResult,
                          urgency |-> urgency]
              priority == getJobPriority(urgency)
              delay == IF urgency = "critical" THEN 0 ELSE 1000
          IN  queues' = IF added
                        THEN [queues EXCEPT ![RQ] =
                                 Append(@, NewJob("handle-content", jobData, priority, delay))]
                        ELSE queues
    /\ UNCHANGED <<callArg, callRet, content, escalationRules, response_log, escalation, trendVars, rate_limit, requests>>

\* one content item processed again and again under the default rules
NextRepeat ==
    \/ \E detectionResult \in QueueInputs : processContent("c1", detectionResult)
    \/ processContentAgain
    \/ \E i \in 1..Len(queues[RQ]) : processContentResponse(i)
    \/ \E i \in 1..Len(queues[EQ]) : processEscalation(i)

SpecRepeat == Init /\ [][NextRepeat]_vars

\* the trend analysis service: its timer, the route that asks for an
\* analysis, and the awaits of the calls of analyzeCurrentTrends
NextTrends ==
    \/ startPeriodicAnalysis
    \/ postTrendsAnalyze
    \/ \E a \in DOMAIN analyses : detectTrendingHashtags(a)
    \/ \E a \in DOMAIN analyses : detectTrendingKeywords(a)
    \/ \E a \in DOMAIN analyses : detectCrossPlatformTrends(a)
    \/ \E a \in DOMAIN analyses : setEx(a)
    \/ \E a \in DOMAIN analyses : zAdd(a)
    \/ \E a \in DOMAIN analyses : generateEarlyWarning(a)

SpecTrends == Init /\ [][NextTrends]_vars

\* the trend service over more than a day
NextExpiry ==
    \/ startPeriodicAnalysis
    \/ \E a \in DOMAIN analyses : detectTrendingHashtags(a)
    \/ \E a \in DOMAIN analyses : detectTrendingKeywords(a)
    \/ \E a \in DOMAIN analyses : detectCrossPlatformTrends(a)
    \/ \E a \in DOMAIN analyses : setEx(a)
    \/ \E a \in DOMAIN analyses : zAdd(a)
    \/ \E a \in DOMAIN analyses : generateEarlyWarning(a)
    \/ expireTrends

SpecExpiry == Init /\ [][NextExpiry]_vars

\* the rate limiter under requests that overlap
NextLimiter ==
    \/ \E client \in {"10.0.0.1", "10.0.0.2"} : rateLimiter(client)
    \/ \E r \in DOMAIN requests : get(r)
    \/ \E r \in DOMAIN requests : increment(r)
    \/ period

SpecLimiter == Init /\ [][NextLimiter]_vars

\* the requests made to the alert routes: the id of a stored warning or of
\* none, with the name of the operator or without it
\* the timer of the trend analysis service, the calls it starts, and the
\* alert route that acknowledges a warning
NextAlerts ==
    \/ startPeriodicAnalysis
    \/ \E a \in DOMAIN analyses : detectTrendingHashtags(a)
    \/ \E a \in DOMAIN analyses : detectTrendingKeywords(a)
    \/ \E a \in DOMAIN analyses : detectCrossPlatformTrends(a)
    \/ \E a \in DOMAIN analyses : setEx(a)
    \/ \E a \in DOMAIN analyses : zAdd(a)
    \/ \E a \in DOMAIN analyses : generateEarlyWarning(a)
    \/ \E id \in DOMAIN warning \cup {"warning_hashtag_x_0"},
          acknowledgedBy \in {<<>>, <<"ann">>} : acknowledge(id, acknowledgedBy)

SpecAlerts == Init /\ [][NextAlerts]_vars

\* ------------------------------------------------------------------ determineUrgency alone

Idle ==
    /\ content = InitialContent
    /\ escalationRules = getDefaultEscalationRules
    /\ queues = [q \in QueueNames |-> <<>>]
    /\ response_log = <<>>
    /\ escalation = [s \in Severities |-> <<>>]
    /\ analyses = <<>>
    /\ trend = <<>>
    /\ trending_active = <<>>
    /\ warning = <<>>
    /\ warnings_active = <<>>
    /\ warnings = [s \in Severities |-> <<>>]
    /\ now = 0
    /\ rate_limit = <<>>
    /\ requests = <<>>

UrgencyInputs ==
    {DetectionResult(score, categories, confidence) :
        score \in 0..100,
        categories \in {c \in SUBSET Categories : Cardinality(c) <= MaxCats},
        confidence \in {0, 100}}

InitUrgency == callArg \in UrgencyInputs /\ callRet = <<>> /\ Idle

callDetermineUrgency ==
    /\ callRet = <<>>
    /\ callRet' = <<determineUrgency(callArg)>>
    /\ UNCHANGED <<callArg, content, escalationRules, queues, response_log, escalation, trendVars, rate_limit, requests>>

SpecUrgency == InitUrgency /\ [][callDetermineUrgency]_vars

\* ------------------------------------------------------------------ checkViralityIndicators alone

ViralityInputs ==
    {Engagement(likes, shares, comments, views) :
        likes \in {0, 400, 900, 1000, 1001},
        shares \in {0, 100, 101},
        comments \in {0, 1, 100},
        views \in {<<>>, <<0>>, <<10000>>, <<10001>>}}

InitViral == callArg \in ViralityInputs /\ callRet = <<>> /\ Idle

callCheckViralityIndicators ==
    /\ callRet = <<>>
    /\ callRet' = <<checkViralityIndicators(callArg)>>
    /\ UNCHANGED <<callArg, content, escalationRules, queues, response_log, escalation, trendVars, rate_limit, requests>>

SpecViral == InitViral /\ [][callCheckViralityIndicators]_vars

\* ------------------------------------------------------------------ the rule engine alone

\* the rules the rule sets are made of
RulePool ==
    { getDefaultEscalationRules[1], getDefaultEscalationRules[2],
      getDefaultEscalationRules[3], getDefaultEscalationRules[4],
      OperatorRules[1], OperatorRules[2],
      Rule("nothing_harmful", Conditions(<<0>>, <<0>>, <<>>, {}, {}, FALSE),
           << Action("flag", "low", "nothing_harmful") >>, 40, TRUE),
      Rule("switched_off", NoConditions,
           << Action("remove", "critical", "switched_off") >>, 200, FALSE),
      Rule("confident", Conditions(<<>>, <<>>, <<70>>, {}, {}, FALSE),
           << Action("notify", "critical", "confident"),
              Action("remove", "critical", "confident") >>, 95, TRUE) }

RECURSIVE RuleLists(_)
RuleLists(n) ==
    IF n = 0 THEN {<<>>}
    ELSE LET shorter == RuleLists(n - 1)
         IN  shorter \cup {Append(rules, rule) : rules \in shorter, rule \in RulePool}

MatchInputs ==
    {[detectionResult |-> DetectionResult(score, categories, confidence),
      contentDoc |-> NewContent(platform, "p1", engagement)] :
        score \in {0, 50, 80, 97},
        categories \in {{}, {"self_harm"}, {"violence", "hate_speech"},
                        {"dangerous_challenge"}},
        confidence \in {50, 90},
        platform \in {"tiktok", "twitter"},
        engagement \in {Engagement(900, 150, 50, <<>>), Engagement(10, 0, 2, <<500>>)}}

InitMatch ==
    /\ callArg \in MatchInputs
    /\ callRet = <<>>
    /\ content = InitialContent
    /\ escalationRules \in RuleLists(MaxRules)
    /\ queues = [q \in QueueNames |-> <<>>]
    /\ response_log = <<>>
    /\ escalation = [s \in Severities |-> <<>>]
    /\ analyses = <<>>
    /\ trend = <<>>
    /\ trending_active = <<>>
    /\ warning = <<>>
    /\ warnings_active = <<>>
    /\ warnings = [s \in Severities |-> <<>>]
    /\ now = 0
    /\ rate_limit = <<>>
    /\ requests = <<>>

callFindApplicableRules ==
    /\ callRet = <<>>
    /\ callRet' = <<findApplicableRules(callArg.detectionResult, callArg.contentDoc)>>
    /\ UNCHANGED <<callArg, content, escalationRules, queues, response_log, escalation, trendVars, rate_limit, requests>>

callConsolidateActions ==
    /\ Len(callRet) = 1
    /\ callRet' = Append(callRet, consolidateActions(callRet[1]))
    /\ UNCHANGED <<callArg, content, escalationRules, queues, response_log, escalation, trendVars, rate_limit, requests>>

\* the consolidated list, consolidated again as the actions of one rule
callConsolidateAgain ==
    /\ Len(callRet) = 2
    /\ callRet' = Append(callRet,
                         consolidateActions(
                             <<Rule("consolidated", NoConditions, callRet[2], 0, TRUE)>>))
    /\ UNCHANGED <<callArg, content, escalationRules, queues, response_log, escalation, trendVars, rate_limit, requests>>

NextMatch == callFindApplicableRules \/ callConsolidateActions \/ callConsolidateAgain

SpecMatch == InitMatch /\ [][NextMatch]_vars

\* ------------------------------------------------------------------ calculateGrowthRate alone

\* getTime() of firstDetected, and lastUpdated at these distances of it: an
\* hour or a millisecond before, the same moment, a millisecond, half an hour,
\* one hour and three hours after

GrowthInputs ==
    {[firstDetected |-> first, lastUpdated |-> first + span, contentCount |-> count] :
        first \in {3600000, 7200000},
        span \in {0 - 3600000, 0 - 1, 0, 1, 1800000, 3600000, 10800000},
        count \in {0, 1, 10, 12, 20}}

InitGrowth == callArg \in GrowthInputs /\ callRet = <<>> /\ Idle

callCalculateGrowthRate ==
    /\ callRet = <<>>
    /\ callRet' = <<calculateGrowthRate(callArg.firstDetected, callArg.lastUpdated,
                                        callArg.contentCount)>>
    /\ UNCHANGED <<callArg, content, escalationRules, queues, response_log, escalation,
                   trendVars, rate_limit, requests>>

SpecGrowth == InitGrowth /\ [][callCalculateGrowthRate]_vars

\* ------------------------------------------------------------------ calculateRiskLevel alone

RiskInputs ==
    {[harmfulnessScore |-> 5 * h, viralityScore |-> 5 * v, platformCount |-> p] :
        h \in 0..20, v \in 0..20, p \in 0..6}

InitRisk == callArg \in RiskInputs /\ callRet = <<>> /\ Idle

callCalculateRiskLevel ==
    /\ callRet = <<>>
    /\ callRet' = <<calculateRiskLevel(callArg.harmfulnessScore, callArg.viralityScore,
                                       callArg.platformCount)>>
    /\ UNCHANGED <<callArg, content, escalationRules, queues, response_log, escalation,
                   trendVars, rate_limit, requests>>

SpecRisk == InitRisk /\ [][callCalculateRiskLevel]_vars

\* ------------------------------------------------------------------ properties

\* C2: determineUrgency returns critical iff score >= 0.95 or a category is
\* one of self_harm, violence, dangerous_challenge, extremism; otherwise high
\* iff score >= 0.85, medium iff score >= 0.70, low in every other case; the
\* confidence of the detection result has no part in it.
C2_UrgencyMapping ==
    callRet # <<>> =>
        LET score == callArg.harmfulnessScore
            risky == callArg.categories \cap
                        {"self_harm", "violence", "dangerous_challenge", "extremism"} # {}
            urgency == callRet[1]
        IN  /\ urgency \in {"critical", "high", "medium", "low"}
            /\ urgency = "critical" <=> (score >= 95 \/ risky)
            /\ urgency = "high" <=> (~risky /\ score >= 85 /\ score < 95)
            /\ urgency = "medium" <=> (~risky /\ score >= 70 /\ score < 85)
            /\ urgency = "low" <=> (~risky /\ score < 70)
            /\ \A confidence \in {0, 50, 100} :
                  determineUrgency([callArg EXCEPT !.confidence = confidence]) = urgency

\* a low score made critical by its category
C2_Witness ==
    /\ callRet = <<"critical">>
    /\ callArg.harmfulnessScore < 70
    /\ "extremism" \in callArg.categories

\* C5: checkViralityIndicators is true iff likes + shares + comments > 1000,
\* or shares > 100, or views is present and > 10000; the thresholds are
\* strict and a missing views value never makes an item viral.
C5_Virality ==
    callRet # <<>> =>
        (callRet[1] = "true" <=>
            \/ callArg.likes + callArg.shares + callArg.comments > 1000
            \/ callArg.shares > 100
            \/ (callArg.views # <<>> /\ callArg.views[1] > 10000))

\* an item exactly at the three thresholds is not viral
C5_Witness ==
    /\ callRet = <<"false">>
    /\ callArg.likes + callArg.shares + callArg.comments = 1000
    /\ callArg.shares = 100
    /\ callArg.views = <<10000>>

occurrences(seq, x) == Cardinality({i \in DOMAIN seq : seq[i] = x})

\* the rule matching as the specification words it: every bound that is
\* given must hold
holdsFor(rule, detectionResult, contentDoc) ==
    LET conditions == rule.conditions
        engagement == contentDoc.engagement
        viral == \/ engagement.likes + engagement.shares + engagement.comments > 1000
                 \/ engagement.shares > 100
                 \/ (engagement.views # <<>> /\ engagement.views[1] > 10000)
    IN  /\ rule.enabled
        /\ (Given(conditions.min) => detectionResult.harmfulnessScore >= conditions.min[1])
        /\ (Given(conditions.max) => detectionResult.harmfulnessScore <= conditions.max[1])
        /\ (Given(conditions.confMin) => detectionResult.confidence >= conditions.confMin[1])
        /\ (conditions.categories # {} =>
                conditions.categories \cap detectionResult.categories # {})
        /\ (conditions.platforms # {} => contentDoc.platform \in conditions.platforms)
        /\ (conditions.viralityIndicators => viral)

\* C4: findApplicableRules returns exactly the enabled rules all of whose
\* given conditions hold for the item (a bound of 0 included), ordered by
\* descending rule priority.
C4_ApplicableRules ==
    Len(callRet) >= 1 =>
        LET found == callRet[1]
            holding == SelectSeq(escalationRules,
                                 LAMBDA rule : holdsFor(rule, callArg.detectionResult,
                                                        callArg.contentDoc))
        IN  /\ \A rule \in RulePool : occurrences(found, rule) = occurrences(holding, rule)
            /\ \A i \in 1..(Len(found) - 1) : found[i].priority >= found[i + 1].priority

listedBy(rule) == {actionKey(rule.actions[k]) : k \in DOMAIN rule.actions}

\* C6: consolidateActions of the matching rules has at most one action for a
\* (type, severity) pair, has a pair iff a matching rule lists it, and keeps
\* for a pair the action of a rule of the highest priority among the matching
\* rules that list the pair.
C6_Consolidation ==
    Len(callRet) >= 2 =>
        LET rules == callRet[1]
            actions == callRet[2]
        IN  /\ \A i, j \in DOMAIN actions :
                  i # j => actionKey(actions[i]) # actionKey(actions[j])
            /\ {actionKey(actions[i]) : i \in DOMAIN actions} =
                  UNION {listedBy(rules[n]) : n \in DOMAIN rules}
            /\ \A i \in DOMAIN actions :
                  \E n \in DOMAIN rules :
                     /\ \E k \in DOMAIN rules[n].actions : rules[n].actions[k] = actions[i]
                     /\ \A m \in DOMAIN rules :
                           actionKey(actions[i]) \in listedBy(rules[m]) =>
                               rules[m].priority <= rules[n].priority

\* two matching rules of different priority list the same pair, the rule of
\* the lower priority first in the rule set
C6_Witness ==
    /\ Len(callRet) >= 2
    /\ Len(escalationRules) = 2
    /\ Len(callRet[1]) = 2
    /\ escalationRules[1].priority < escalationRules[2].priority
    /\ listedBy(escalationRules[1]) \cap listedBy(escalationRules[2]) # {}

\* C7: consolidation is idempotent: the consolidated list, consolidated again
\* as the action list of a single rule, comes back the same, in the same order.
C7_Idempotent == Len(callRet) = 3 => callRet[3] = callRet[2]

\* a consolidated list in which two actions have the same action priority
C7_Witness ==
    /\ Len(callRet) = 3
    /\ \E i \in 1..(Len(callRet[2]) - 1) :
          getActionPriority(callRet[2][i]) = getActionPriority(callRet[2][i + 1])

\* the response jobs whose handler is called in this step
called(i) ==
    /\ i \in DOMAIN queues[RQ]
    /\ queues'[RQ][i].attemptsMade = queues[RQ][i].attemptsMade + 1

\* the escalation jobs this step adds
enqueued == SubSeq(queues'[EQ], Len(queues[EQ]) + 1, Len(queues'[EQ]))

C1_Step ==
    /\ \A id \in DOMAIN content' :
          (content'[id].removed /\ (id \in DOMAIN content => ~content[id].removed)) =>
              \E i \in DOMAIN queues[RQ] :
                 /\ called(i)
                 /\ queues[RQ][i].data.contentId = id
                 /\ queues[RQ][i].data.detectionResult.harmfulnessScore >= 95
                 /\ \E k \in DOMAIN queues'[RQ][i].started :
                       queues'[RQ][i].started[k].type = "remove"
    /\ \A i \in DOMAIN queues[RQ] :
          LET job == queues'[RQ][i]
              id == job.data.contentId
          IN  (called(i) /\ job.state = "completed"
                  /\ job.data.detectionResult.harmfulnessScore < 95) =>
                 \A k \in DOMAIN job.actions :
                    job.actions[k].type = "remove" =>
                       /\ content'[id].removed = content[id].removed
                       /\ content'[id].escalated
                       /\ Cardinality({n \in DOMAIN enqueued :
                             /\ enqueued[n].name = "escalate-content"
                             /\ enqueued[n].data.contentId = id
                             /\ enqueued[n].data.action = job.actions[k]}) = 1

\* C1: the removed marker of a content item is set only by a response job
\* whose harmfulness score is at or above the auto-action threshold of 0.95;
\* a remove action of a job below the threshold leaves the removed marker as
\* it is, sets the escalated marker and enqueues one escalation job.
C1_RemoveGuard == [][C1_Step]_vars

\* a job below the threshold has run a remove action: the item is escalated
\* and not removed
C1_Witness ==
    \E i \in DOMAIN queues[RQ] :
       LET job == queues[RQ][i]
       IN  /\ job.state = "completed"
           /\ job.data.detectionResult.harmfulnessScore < 95
           /\ \E k \in DOMAIN job.actions : job.actions[k].type = "remove"
           /\ content[job.data.contentId].escalated
           /\ ~content[job.data.contentId].removed

C3_Step ==
    queues'[RQ] # queues[RQ] /\ Len(queues'[RQ]) # Len(queues[RQ]) =>
        LET job == queues'[RQ][Len(queues'[RQ])]
            score == job.data.detectionResult.harmfulnessScore
            risky == job.data.detectionResult.categories \cap
                        {"self_harm", "violence", "dangerous_challenge", "extremism"} # {}
            urgency == IF score >= 95 \/ risky THEN "critical"
                       ELSE IF score >= 85 THEN "high"
                       ELSE IF score >= 70 THEN "medium" ELSE "low"
        IN  /\ queues'[RQ] = Append(queues[RQ], job)
            /\ job.name = "handle-content"
            /\ job.state = "waiting"
            /\ job.attemptsMade = 0
            /\ job.data.urgency = urgency
            /\ job.priority = CASE urgency = "critical" -> 1 [] urgency = "high" -> 2
                                [] urgency = "medium" -> 3 [] urgency = "low" -> 4
            /\ job.delay = IF urgency = "critical" THEN 0 ELSE 1000

\* C3: a call of processContent that returns adds exactly one handle-content
\* job to the response queue, with the urgency of determineUrgency, the job
\* priority critical 1, high 2, medium 3, low 4 and the delay 0 for critical
\* and 1000 ms for every other urgency.
C3_OneJob == [][C3_Step]_vars

\* a job of medium urgency is in the queue
C3_Witness ==
    \E i \in DOMAIN queues[RQ] :
       /\ queues[RQ][i].data.urgency = "medium"
       /\ queues[RQ][i].priority = 3
       /\ queues[RQ][i].delay = 1000

weight(action) ==
    (CASE action.type = "remove" -> 5 [] action.type = "quarantine" -> 4
       [] action.type = "escalate" -> 3 [] action.type = "flag" -> 2
       [] action.type = "warn" -> 1 [] action.type = "notify" -> 1)
    * (CASE action.severity = "critical" -> 4 [] action.severity = "high" -> 3
         [] action.severity = "medium" -> 2 [] action.severity = "low" -> 1)

\* C8: the actions of one call of the response handler start in the order of
\* the consolidated list, which is non-increasing in typeWeight x
\* severityWeight: no action starts after an action of a lower weight.
C8_ActionOrder ==
    \A i \in DOMAIN queues[RQ] :
       LET job == queues[RQ][i]
       IN  /\ Len(job.started) <= Len(job.actions)
           /\ job.started = SubSeq(job.actions, 1, Len(job.started))
           /\ \A k \in DOMAIN job.started, n \in DOMAIN job.started :
                 k < n => weight(job.started[k]) >= weight(job.started[n])

\* a job has started three actions, the last of a lower weight than the first
C8_Witness ==
    \E i \in DOMAIN queues[RQ] :
       /\ Len(queues[RQ][i].started) >= 3
       /\ weight(queues[RQ][i].started[1]) > weight(queues[RQ][i].started[3])

completed(jobs) == {i \in DOMAIN jobs : jobs[i].state = "completed"}

C9_Step ==
    /\ \/ response_log' = response_log
       \/ Tail(response_log') = response_log
    /\ Len(response_log') - Len(response_log) =
          Cardinality(completed(queues'[RQ])) - Cardinality(completed(queues[RQ]))
    /\ \A i \in DOMAIN queues[RQ] :
          (called(i) /\ queues'[RQ][i].state = "completed") =>
              /\ queues'[RQ][i].started = queues'[RQ][i].actions
              /\ Head(response_log').contentId = queues[RQ][i].data.contentId
              /\ Head(response_log').actions = queues'[RQ][i].actions
    /\ \A i \in DOMAIN queues[RQ] :
          queues[RQ][i].state = "completed" => queues'[RQ][i] = queues[RQ][i]

\* C9: a response job that completes appends exactly one entry to the
\* response log, after all of its actions; a call of the handler that throws
\* appends none; no entry of the log is ever changed or removed.
C9_ResponseLog == [][C9_Step]_vars

\* a job has completed at its third attempt and the log has its one entry
C9_Witness ==
    /\ Len(response_log) = 1
    /\ \E i \in DOMAIN queues[RQ] :
          /\ queues[RQ][i].state = "completed"
          /\ queues[RQ][i].attemptsMade = 3
          /\ Len(queues[RQ][i].actions) >= 2

limit(queue) ==
    CASE queue = "automated-response" -> 3
      [] queue = "content-ingestion" -> 3
      [] queue = "content-processing" -> 5
      [] queue = "escalation" -> 2

C10_Step ==
    \A queue \in QueueNames :
       \A i \in DOMAIN queues[queue] :
          LET job == queues[queue][i]
              next == queues'[queue][i]
          IN  /\ next.attemptsMade <= limit(queue)
              /\ next.state \in {"waiting", "completed", "failed"}
              /\ next.state = "failed" => next.attemptsMade = limit(queue)
              /\ next.state = "waiting" => next.attemptsMade < limit(queue)
              /\ job.state \in {"completed", "failed"} => next = job

\* C10: a job whose handler throws at every attempt is attempted exactly N
\* times and is then failed, and a job that has completed or failed is not
\* attempted again, with N = 3 on the response queue and the ingestion
\* queue, 5 on the content-processing queue and 2 on the escalation queue.
C10_Attempts == [][C10_Step]_vars

\* a failed job on the response, the escalation and the processing queue
C10_Witness ==
    /\ \E i \in DOMAIN queues[RQ] : queues[RQ][i].state = "failed"
    /\ \E i \in DOMAIN queues[EQ] : queues[EQ][i].state = "failed"
    /\ \E i \in DOMAIN queues[PQ] : queues[PQ][i].state = "failed"

C11_Step ==
    \A i \in DOMAIN queues[RQ] :
       (called(i) /\ queues[RQ][i].data.contentId \notin DOMAIN content) =>
           /\ queues'[RQ][i].state = "failed"
           /\ queues'[RQ][i].attemptsMade = 1

\* C11: a response job whose content id has no document when the handler is
\* called fails for good: after that one call it is in the failed state and
\* it is not called again.
C11_NotFoundFails == [][C11_Step]_vars

C12_Step ==
    /\ \A i \in DOMAIN queues[RQ] :
          LET job == queues'[RQ][i]
              id == job.data.contentId
          IN  (called(i) /\ job.state = "completed") =>
                 \A k \in DOMAIN job.actions :
                    job.actions[k].type = "escalate" =>
                       /\ content'[id].escalated
                       /\ Cardinality({n \in DOMAIN enqueued :
                             /\ enqueued[n].name = "escalate-content"
                             /\ enqueued[n].state = "waiting"
                             /\ enqueued[n].data.contentId = id
                             /\ enqueued[n].data.action = job.actions[k]}) = 1
    /\ \A i \in DOMAIN queues[EQ] :
          LET job == queues'[EQ][i]
              severity == job.data.action.severity
          IN  (job.state = "completed" /\ queues[EQ][i].state # "completed") =>
                 /\ Len(escalation'[severity]) = Len(escalation[severity]) + 1
                 /\ Tail(escalation'[severity]) = escalation[severity]
                 /\ Head(escalation'[severity]).contentId = job.data.contentId
                 /\ Head(escalation'[severity]).action = job.data.action
                 /\ \A other \in Severities \ {severity} :
                       escalation'[other] = escalation[other]

\* C12: an escalate action that is executed adds one escalate-content job to
\* the escalation queue and sets the escalated marker of the content; the
\* escalation job that completes pushes one entry for the content onto the
\* review list of the severity of its action and changes no other list.
C12_Escalation == [][C12_Step]_vars

\* an escalate action  has gone its whole way: the content
\* is escalated, its escalation job completed, the entry on the list of the
\* severity and the other lists empty
C12_Witness ==
    \E i \in DOMAIN queues[EQ] :
       LET job == queues[EQ][i]
       IN  /\ job.state = "completed"
           /\ job.data.action.type = "escalate"
           /\ content[job.data.contentId].escalated
           /\ Len(escalation[job.data.action.severity]) = 1
           /\ escalation[job.data.action.severity][1].contentId = job.data.contentId
           /\ \A other \in Severities \ {job.data.action.severity} :
                 escalation[other] = <<>>

\* the moderation markers of a document
markers(doc) ==
    [flagged |-> doc.flagged, flags |-> doc.flags,
     removed |-> doc.removed, removeReason |-> doc.removeReason,
     escalated |-> doc.escalated, escalationReason |-> doc.escalationReason,
     reviewPriority |-> doc.reviewPriority,
     userWarned |-> doc.userWarned, warningReason |-> doc.warningReason,
     quarantined |-> doc.quarantined, quarantineReason |-> doc.quarantineReason,
     requiresReview |-> doc.requiresReview]

\* the markers one processing of the detection result, every action of which
\* succeeds, leaves on a document that had none
single(doc, detectionResult) ==
    LET fresh == "c1" :> NewContent(doc.platform, doc.platformId, doc.engagement)
        actions == consolidateActions(findApplicableRules(detectionResult, doc))
    IN  markers(executeActions([docs |-> fresh, queue |-> <<>>], "c1", actions,
                               detectionResult).docs["c1"])

\* every response job for the content id carries this detection result
onlyWith(jobs, contentId, detectionResult) ==
    \A k \in DOMAIN jobs :
       jobs[k].data.contentId = contentId =>
           jobs[k].data.detectionResult = detectionResult

\* no call of the handler for the content id is still to come
settled(jobs, contentId) ==
    \A k \in DOMAIN jobs :
       jobs[k].data.contentId = contentId =>
           jobs[k].state \in {"completed", "failed"}

\* C13: once a content id has been processed, processing it again with the
\* same detection result, by a second job or by retries, leaves the markers
\* equal to those of a single processing, whatever the end of the later job.
C13_SameMarkers ==
    \A i \in DOMAIN queues[RQ] :
       LET job == queues[RQ][i]
           id == job.data.contentId
       IN  (job.state = "completed"
               /\ settled(queues[RQ], id)
               /\ onlyWith(queues[RQ], id, job.data.detectionResult)) =>
              markers(content[id]) = single(content[id], job.data.detectionResult)

C13_Step ==
    \A i \in DOMAIN queues[RQ] :
       LET job == queues'[RQ][i]
           id == job.data.contentId
       IN  (called(i) /\ job.state = "completed"
               /\ onlyWith(queues[RQ], id, job.data.detectionResult)) =>
              markers(content'[id]) = single(content[id], job.data.detectionResult)

\* every call of the handler that returns, be it of the first job, of a second
\* job with the same detection result or the retry of a partly executed job,
\* leaves the markers equal to those of a single processing
C13_SameMarkersCompleted == [][C13_Step]_vars

\* two jobs for the same content and detection result have completed, one of
\* them at a retry, and the content is escalated
C13_CompletedWitness ==
    /\ Len(queues[RQ]) = 2
    /\ queues[RQ][1].state = "completed"
    /\ queues[RQ][2].state = "completed"
    /\ queues[RQ][1].attemptsMade + queues[RQ][2].attemptsMade >= 3
    /\ content[queues[RQ][1].data.contentId].escalated
    /\ markers(content["c1"]) = single(content["c1"], queues[RQ][1].data.detectionResult)

\* two records made for the same content id, detection result and action
sameEscalation(x, y) ==
    /\ x.contentId = y.contentId
    /\ x.detectionResult = y.detectionResult
    /\ x.action = y.action

\* C14: whatever the number of response jobs and retries for one content id
\* and one detection result, the escalation queue has received at most one
\* job for a (content id, action) and every review list holds at most one
\* entry for a (content id, action).
C14_AtMostOnce ==
    /\ \A a, b \in DOMAIN queues[EQ] :
          sameEscalation(queues[EQ][a].data, queues[EQ][b].data) => a = b
    /\ \A severity \in Severities :
          \A a, b \in DOMAIN escalation[severity] :
             sameEscalation(escalation[severity][a], escalation[severity][b]) => a = b

\* C19: calculateGrowthRate is 0 when lastUpdated - firstDetected <= 0 and
\* contentCount divided by the span in hours otherwise (12 items over three
\* hours give 4); the result is a finite number that is not negative.
C19_GrowthRate ==
    callRet # <<>> =>
        LET rate == callRet[1]
            span == callArg.lastUpdated - callArg.firstDetected
        IN  /\ rate.den > 0
            /\ rate.num >= 0
            /\ span <= 0 => rate.num = 0
            /\ span > 0 => rate.num * span = callArg.contentCount * 3600000 * rate.den
            /\ (span = 3 * 3600000 /\ callArg.contentCount = 12) =>
                   rate = [num |-> 4, den |-> 1]

\* twelve items first and last seen at the same moment
C19_Witness ==
    /\ callArg.contentCount = 12
    /\ callArg.firstDetected = callArg.lastUpdated
    /\ callRet = <<[num |-> 0, den |-> 1]>>

rank(level) ==
    CASE level = "low" -> 0 [] level = "medium" -> 1
      [] level = "high" -> 2 [] level = "critical" -> 3

C15_OnePass == Cardinality(inProgress) <= 1

\* the normalized signal set of a trend
signalKey(t) ==
    <<sortStrings(t.hashtags), sortStrings(t.keywords), sortStrings(t.categories)>>

\* the candidates of a call in merge order
merged(call) == call.trendingHashtags \o call.trendingKeywords \o call.crossPlatformTrends

passList(call, pass) ==
    CASE pass = 1 -> call.trendingHashtags
      [] pass = 2 -> call.trendingKeywords
      [] pass = 3 -> call.crossPlatformTrends

C16_Step ==
    \A a \in DOMAIN analyses :
       LET call == analyses[a]
           after == analyses'[a]
           i == call.next
       IN  /\ after.pc # "thrown"
           /\ \A pass \in 1..3 :
                 <<"pass", pass>> \in after.logged => passList(after, pass) = <<>>
           /\ (call.pc = "crossplatform" /\ after.pc # "crossplatform") =>
                 {signalKey(after.consolidatedTrends[k]) :
                     k \in DOMAIN after.consolidatedTrends}
                    = {signalKey(merged(after)[k]) : k \in DOMAIN merged(after)}
           /\ (after.pc = "returned" /\ call.pc # "returned") =>
                 i = Len(after.consolidatedTrends)
           /\ (call.pc \in {"setEx", "zAdd", "warn"} /\ after # call) =>
                 /\ after.consolidatedTrends = call.consolidatedTrends
                 /\ \/ after.next = i /\ after.pc \in {"zAdd", "warn"}
                    \/ after.next = i + 1 /\ after.pc = "setEx"
                    \/ after.pc = "returned"
                 /\ (call.pc \in {"setEx", "zAdd"}
                        /\ call.consolidatedTrends[i].riskLevel \in {"high", "critical"}) =>
                       after.next = i
                 /\ (call.redis /\ after.logged = call.logged) =>
                       LET t == call.consolidatedTrends[i]
                       IN  CASE call.pc = "setEx" ->
                                  t.id \in DOMAIN trend' /\ trend'[t.id].value = t
                             [] call.pc = "zAdd" ->
                                  /\ t.id \in DOMAIN trending_active'
                                  /\ trending_active'[t.id] =
                                        t.harmfulnessScore * t.viralityScore
                             [] call.pc = "warn" ->
                                  /\ Len(warnings_active') = Len(warnings_active) + 1
                                  /\ Head(warnings_active') \in DOMAIN warning'
                                  /\ warning'[Head(warnings_active')].value.trendData = t

\* C16: when the query of a pass fails, or the store or the warning write of
\* a trend fails, the call of analyzeCurrentTrends still returns: the failed
\* pass gives no trend, the trends of the other passes are consolidated and
\* returned, and the loop goes on to store and to promote every trend that
\* is left.
C16_CycleCompletes == [][C16_Step]_vars

\* a call has returned after the query of its hashtag pass and the store of
\* its first trend failed: its second trend is in the ledger and in the index
C16_Witness ==
    \E a \in DOMAIN analyses :
       LET call == analyses[a]
       IN  /\ call.pc = "returned"
           /\ call.logged = {<<"pass", 1>>, <<"store", 1>>}
           /\ Len(call.consolidatedTrends) >= 2
           /\ call.consolidatedTrends[2].id \in DOMAIN trend
           /\ call.consolidatedTrends[2].id \in DOMAIN trending_active

\* C17: the list of a cycle has no two trends of the same normalized
\* signal-set key (sorted hashtags, sorted keywords, sorted categories); of the
\* candidates of a key it keeps the first in merge order (hashtag pass,
\* keyword pass, cross-platform pass); it is ordered by harmfulness x
\* virality, never increasing.
C17_Consolidated ==
    \A a \in DOMAIN analyses :
       LET call == analyses[a]
           list == call.consolidatedTrends
           candidates == merged(call)
       IN  call.pc \in {"setEx", "zAdd", "warn", "returned"} =>
              /\ \A i, j \in DOMAIN list :
                    signalKey(list[i]) = signalKey(list[j]) => i = j
              /\ \A k \in DOMAIN candidates :
                    \E i \in DOMAIN list : signalKey(list[i]) = signalKey(candidates[k])
              /\ \A i \in DOMAIN list :
                    \E k \in DOMAIN candidates :
                       /\ signalKey(candidates[k]) = signalKey(list[i])
                       /\ \A n \in 1..(k - 1) :
                             signalKey(candidates[n]) # signalKey(list[i])
                       /\ candidates[k].id = list[i].id
                       /\ candidates[k].contentCount = list[i].contentCount
                       /\ candidates[k].platforms = list[i].platforms
              /\ \A i \in 1..(Len(list) - 1) :
                    list[i].harmfulnessScore * list[i].viralityScore
                       >= list[i + 1].harmfulnessScore * list[i + 1].viralityScore

\* a cycle whose cross-platform pass found a cluster the hashtag pass had
\* found and one cluster twice, and whose list is not in merge order
C17_Witness ==
    \E a \in DOMAIN analyses :
       LET call == analyses[a]
       IN  /\ call.pc = "returned"
           /\ Len(call.trendingHashtags) = 1
           /\ Len(call.crossPlatformTrends) = 3
           /\ Len(call.consolidatedTrends) = 3
           /\ call.consolidatedTrends[1].id # merged(call)[1].id

\* C18: two cycles that observe a cluster of the same normalized signal set
\* give it the same trend id, whatever its content count and its rank in the
\* cycle, so that the ledger never holds two records of one signal set.
C18_StableIdentity ==
    /\ \A a, b \in DOMAIN analyses :
          \A i \in DOMAIN analyses[a].consolidatedTrends,
             j \in DOMAIN analyses[b].consolidatedTrends :
             LET x == analyses[a].consolidatedTrends[i]
                 y == analyses[b].consolidatedTrends[j]
             IN  signalKey(x) = signalKey(y) => x.id = y.id
    /\ \A x, y \in DOMAIN trend :
          signalKey(trend[x].value) = signalKey(trend[y].value) => x = y

\* the warnings a step stores for the trend t at the present time
createdFor(t) ==
    {id \in DOMAIN warning' :
        /\ warning'[id].value.trendData = t
        /\ warning'[id].value.createdAt = now}

C21_Step ==
    /\ \A a \in DOMAIN analyses :
          LET call == analyses[a]
              after == analyses'[a]
              i == call.next
          IN  /\ (call.pc \in {"setEx", "zAdd"} /\ after # call
                    /\ (after.next # i \/ after.pc = "returned")) =>
                    /\ call.consolidatedTrends[i].riskLevel \in {"low", "medium"}
                    /\ warning' = warning
                    /\ warnings_active' = warnings_active
              /\ (call.pc = "warn" /\ after # call) =>
                    LET t == call.consolidatedTrends[i]
                    IN  /\ t.riskLevel \in {"high", "critical"}
                        /\ after.next = i + 1 \/ after.pc = "returned"
                        /\ (call.redis /\ after.logged = call.logged) =>
                              /\ Cardinality(createdFor(t)) = 1
                              /\ \A id \in createdFor(t) :
                                    /\ warning'[id].value.severity = t.riskLevel
                                    /\ warning'[id].ttl = 7 * 24 * 60 * 60
                                    /\ warnings_active' = <<id>> \o warnings_active
                                    /\ DOMAIN warning' = DOMAIN warning \cup {id}
                                    /\ \A old \in DOMAIN warning :
                                          warning[old].value.createdAt < now =>
                                             /\ old # id
                                             /\ warning'[old] = warning[old]
    /\ (warning' # warning \/ warnings_active' # warnings_active) =>
          \E a \in DOMAIN analyses :
             analyses[a].pc = "warn" /\ analyses'[a] # analyses[a]

C22_BothLists ==
    \A k \in DOMAIN warnings_active :
       LET id == warnings_active[k]
       IN  id \in DOMAIN warning =>
              LET w == warning[id].value
              IN  /\ \E n \in DOMAIN warnings[w.severity] : warnings[w.severity][n] = id
                  /\ \E n \in DOMAIN getAlerts(<<w.severity>>).alerts :
                        getAlerts(<<w.severity>>).alerts[n] = w
                  /\ getAlertsSummary.summary.bySeverity[w.severity] >= 1

\* the fields of an EarlyWarning as generateEarlyWarning writes it
DetectionFacts ==
    {"id", "title", "description", "severity", "trendData", "recommendedActions",
     "createdAt"}

C23_Step ==
    (callArg' # callArg \/ callRet' # callRet) =>
       LET id == callArg'.id
           response == callRet'[1]
       IN  /\ warnings_active' = warnings_active
           /\ warnings' = warnings
           /\ DOMAIN warning' = DOMAIN warning
           /\ \A other \in DOMAIN warning \ {id} : warning'[other] = warning[other]
           /\ UNCHANGED <<trend, trending_active, analyses, now>>
           /\ IF id \in DOMAIN warning
              THEN /\ response.status = 200
                   /\ \A field \in DetectionFacts :
                         warning'[id].value[field] = warning[id].value[field]
                   /\ DOMAIN warning'[id].value =
                         DetectionFacts \cup {"acknowledgedAt", "acknowledgedBy"}
                   /\ warning'[id].value.acknowledgedAt = now
                   /\ warning'[id].value.acknowledgedBy \in {"unknown", "ann"}
                   /\ response.alert = warning'[id].value
              ELSE /\ response.status = 404
                   /\ warning' = warning

\* C23: acknowledging a warning sets acknowledgedAt and acknowledgedBy of the
\* stored warning and nothing else: its id, title, description, severity,
\* trendData, recommendedActions and createdAt stay, and so do the lists that
\* hold its id; acknowledging an id that has no stored warning answers 404
\* and changes nothing.
C23_Acknowledge == [][C23_Step]_vars

\* a listed warning has been acknowledged by a request that named its actor
C23_Witness ==
    /\ callRet # <<>>
    /\ callRet[1].status = 200
    /\ callArg.id \in DOMAIN warning
    /\ warning[callArg.id].value.acknowledgedBy = "ann"
    /\ warning[callArg.id].value.createdAt < warning[callArg.id].value.acknowledgedAt
    /\ \E k \in DOMAIN warnings_active : warnings_active[k] = callArg.id

\* C24: storeTrendData leaves the record of the trend in the ledger under its
\* id and the id in the index 'trending:active' with the score harmfulness x
\* virality of that record, a later store of the id replacing both: in every
\* state, the index score of an id that has a record is harmfulness x
\* virality of the record.
C24_IndexScore ==
    \A id \in DOMAIN trend \cap DOMAIN trending_active :
       trending_active[id] = trend[id].value.harmfulnessScore * trend[id].value.viralityScore

\* the actions of a matching pass that evaluates the rule set rules, all of it
matched(rules, detectionResult, contentDoc) ==
    consolidateActions(
        sortRules(SelectSeq(rules, LAMBDA rule : ruleMatches(rule, detectionResult,
                                                             contentDoc))))

C25_Step ==
    \A i \in DOMAIN queues[RQ] :
       (called(i) /\ queues'[RQ][i].actions # <<>>) =>
          LET data == queues[RQ][i].data
          IN  /\ escalationRules \in RuleSets
              /\ escalationRules' = escalationRules
              /\ data.contentId \in DOMAIN content
              /\ queues'[RQ][i].actions =
                    matched(escalationRules, data.detectionResult, content[data.contentId])

\* C25: the matching pass of a response job, findApplicableRules and
\* consolidateActions, evaluates one rule set, all of it: the set that is
\* loaded when the pass runs, be it the one the job was enqueued under or one
\* updateEscalationRules has loaded since, and never rules of both.
C25_OneRuleSet == [][C25_Step]_vars

\* a job waits for its next attempt: the pass of its last attempt used the
\* default rules, and the operator's rules have been loaded since
C25_Witness ==
    \E i \in DOMAIN queues[RQ] :
       LET job == queues[RQ][i]
           doc == content[job.data.contentId]
       IN  /\ job.state = "waiting"
           /\ job.attemptsMade >= 1
           /\ escalationRules = OperatorRules
           /\ job.actions = matched(getDefaultEscalationRules, job.data.detectionResult, doc)
           /\ job.actions # matched(OperatorRules, job.data.detectionResult, doc)
           /\ job.actions # <<>>

\* C26: a job that has used up its attempts stays in its queue in the state
\* failed, and getQueueStats reports the number of the failed jobs of the
\* response queue and of the escalation queue.
C26_FailedVisible ==
    /\ Cardinality(jobsIn(RQ, "failed")) > 0 =>
          /\ "failed" \in DOMAIN getQueueStats.response
          /\ getQueueStats.response["failed"] = Cardinality(jobsIn(RQ, "failed"))
    /\ Cardinality(jobsIn(EQ, "failed")) > 0 =>
          /\ "failed" \in DOMAIN getQueueStats.escalation
          /\ getQueueStats.escalation["failed"] = Cardinality(jobsIn(EQ, "failed"))

\* the response jobs enqueued for a content id
submitted(contentId) ==
    {i \in DOMAIN queues[RQ] : queues[RQ][i].data.contentId = contentId}

\* C27: once the classification of a content item has completed and its
\* DetectionResult is saved, the item is eventually handed to the response
\* executor: processContent is called for its id and a response job for it is
\* in the response queue.
C27_Submitted ==
    \A contentId \in ContentIds :
       (Exists(content, contentId) /\ content[contentId].analysisResults # <<>>)
          ~> (submitted(contentId) # {})

\* C28: the response log and the human-review entries record what was done:
\* a remove that was handed to human review because the score is below the
\* auto-action threshold appears as an escalate action, never as a remove,
\* in the log entry of the job, in the escalation job and in the entry of
\* the escalation list.
C28_DowngradeLogged ==
    /\ \A k \in DOMAIN response_log :
          \A n \in DOMAIN response_log[k].actions :
             response_log[k].actions[n].type = "remove" =>
                response_log[k].detectionResult.harmfulnessScore >= autoActionThreshold
    /\ \A j \in DOMAIN queues[EQ] : queues[EQ][j].data.action.type = "escalate"
    /\ \A severity \in Severities :
          \A k \in DOMAIN escalation[severity] :
             escalation[severity][k].action.type = "escalate"

\* how severe a severity is
severityRank(severity) ==
    CASE severity = "critical" -> 4 [] severity = "high" -> 3
      [] severity = "medium" -> 2 [] severity = "low" -> 1

\* the worker of the escalation queue takes job i in this step
served(i) ==
    /\ i \in DOMAIN queues[EQ]
    /\ queues'[EQ][i].attemptsMade = queues[EQ][i].attemptsMade + 1

C29_Step ==
    \A i \in DOMAIN queues[EQ] :
       served(i) =>
          \A k \in DOMAIN queues[EQ] :
             (/\ queues[EQ][k].state = "waiting"
              /\ queues[EQ][k].data.action.type = queues[EQ][i].data.action.type) =>
                severityRank(queues[EQ][k].data.action.severity)
                   <= severityRank(queues[EQ][i].data.action.severity)

\* C29: the escalation queue serves its waiting jobs in the order of their
\* severity: a job is never taken while a job of the same action type and a
\* higher severity waits.
C29_SeverityOrder == [][C29_Step]_vars

C30_Step ==
    \A i \in DOMAIN queues[RQ] :
       LET job == queues'[RQ][i]
           id == job.data.contentId
           mine == {n \in DOMAIN enqueued : enqueued[n].data.contentId = id}
       IN  (called(i) /\ job.state = "completed" /\ mine # {}) =>
              \A n \in mine :
                 severityRank(enqueued[n].data.action.severity)
                    <= severityRank(content'[id].reviewPriority)

\* C30: when a response job completes, reviewPriority of its content item
\* is the highest severity among the escalations the job enqueued for it,
\* those of a downgraded remove included: a less severe escalation that
\* comes later in the job does not lower it.
C30_ReviewPriority == [][C30_Step]_vars

\* C31: when a response job has failed after its last attempt, every content
\* marker and every escalation job its attempts wrote is covered by an entry
\* of the response log for the content id.
C31_Audited ==
    \A i \in DOMAIN queues[RQ] :
       LET job == queues[RQ][i]
           id == job.data.contentId
           doc == content[id]
       IN  (/\ job.state = "failed"
            /\ id \in DOMAIN content
            /\ \A k \in DOMAIN queues[RQ] : queues[RQ][k].data.contentId = id => k = i
            /\ \/ markers(doc) # markers(NewContent(doc.platform, doc.platformId,
                                                    doc.engagement))
               \/ \E n \in DOMAIN queues[EQ] : queues[EQ][n].data.contentId = id) =>
              \E k \in DOMAIN response_log : response_log[k].contentId = id

C32_Step ==
    \A id \in DOMAIN content :
       content[id].processingStatus = "completed" =>
           content'[id].processingStatus = "completed"

\* C32: a content item whose processingStatus is completed keeps that status
\* through every later job: collecting its (platform, platformId) again and
\* running the content-processing job enqueued for it do not move it to
\* pending, processing or any other status, so the trend passes still read it.
C32_StaysCompleted == [][C32_Step]_vars

\* C33: every trend id the summary reads from the ranked active-trend index
\* has a live trend record: the id of a trend whose 24-hour record has
\* expired is no longer in the index.
C33_IndexLive == \A id \in trendIds : id \in DOMAIN trend

\* the requests of a key and a window that were passed on
passedOn(key, window) ==
    {r \in DOMAIN requests : /\ requests[r].key = key
                             /\ requests[r].window = window
                             /\ requests[r].next}

\* C34: in every window at most maxRequests requests of one key are passed
\* on to the next handler, however the requests of the key overlap; a request
\* answered with 429 is not passed on.
C34_Limit ==
    /\ \A r \in DOMAIN requests :
          Cardinality(passedOn(requests[r].key, requests[r].window)) <= maxRequests
    /\ \A r \in DOMAIN requests : requests[r].status = 429 => ~requests[r].next
====
